---- MODULE Spec2Model ----
(***************************************************************************)
(* forge-utils: the add / remove pipeline of the CLI.                      *)
(*                                                                         *)
(* The registry is read-only input data, the project directory is the only *)
(* mutable resource.  Every command (add, remove) is one atomic action:    *)
(* the code is single-threaded and awaits every I/O call in sequence.      *)
(***************************************************************************)
EXTENDS Integers, Sequences, FiniteSets, TLC

VARIABLES
  registry,      \* the loaded registry: [categories, utilities]
  sources,       \* package content providers: provider -> utility name -> content
  dotConfig,     \* content of <cwd>/.forge-utils.json, or NoFile
  legacyConfig,  \* content of <cwd>/forge-utils.config.json, or NoFile
  initFile,      \* content of <cwd>/forge-utils.json, or NoFile
  tsMarker,      \* TRUE when detectTypeScriptProject() finds a typed-project marker
  dirs,          \* the directories that exist under <cwd>
  files,         \* the files under <cwd>: path -> content, or NoFile
  last           \* what the last command did (its console output and exit code)

vars == <<registry, sources, dotConfig, legacyConfig, initFile, tsMarker, dirs, files, last>>

----------------------------------------------------------------------------
(* Bounds of the model *)

MaxEdges == 3      \* total number of dependency entries in a drawn registry
MaxReq == 2        \* number of names on one command line

----------------------------------------------------------------------------
(* Values *)

Absent == "<absent>"              \* an undefined string
NoFile == [nofile |-> TRUE]       \* a path that does not exist
NoUtility == [undefined |-> TRUE] \* findUtility found nothing
NoConfig == [null |-> TRUE]       \* getProjectConfig returned null

Range(s) == {s[i] : i \in 1..Len(s)}

\* JavaScript Set<string>: insertion-ordered, no duplicates
SetAdd(s, x) == IF x \in Range(s) THEN s ELSE Append(s, x)

RECURSIVE SetAddAll(_, _)
SetAddAll(s, xs) ==
  IF xs = <<>> THEN s ELSE SetAddAll(SetAdd(s, Head(xs)), Tail(xs))

\* [...new Set(xs)]
Unique(xs) == SetAddAll(<<>>, xs)

\* utilities.map(u => u.name)
mapName(utilities) == [i \in 1..Len(utilities) |-> utilities[i].name]

----------------------------------------------------------------------------
(* Strings: the names, descriptions and queries of the model, with their   *)
(* characters, so that toLowerCase / includes / startsWith are computed.   *)

Chars(s) ==
  CASE s = "A"  -> <<"A">>
    [] s = "B"  -> <<"B">>
    [] s = "C"  -> <<"C">>
    [] s = "a"  -> <<"a">>
    [] s = "Q"  -> <<"Q">>
    [] s = "Z"  -> <<"Z">>
    [] s = "b"  -> <<"b">>
    [] s = "q"  -> <<"q">>
    [] s = "ab" -> <<"a", "b">>
    [] s = "AB" -> <<"A", "B">>
    [] s = "Ba" -> <<"B", "a">>
    [] s = "cab" -> <<"c", "a", "b">>
    [] s = "bq" -> <<"b", "q">>
    [] s = "bc" -> <<"b", "c">>
    [] s = "dom"  -> <<"d", "o", "m">>
    [] s = "file" -> <<"f", "i", "l", "e">>
    [] OTHER    -> <<>>

toLowerCaseChar(c) ==
  CASE c = "A" -> "a" [] c = "B" -> "b" [] c = "C" -> "c"
    [] c = "Q" -> "q" [] c = "Z" -> "z" [] OTHER -> c

toLowerCase(cs) == [i \in 1..Len(cs) |-> toLowerCaseChar(cs[i])]

\* String.prototype.includes
includes(hay, needle) ==
  \E i \in 0..(Len(hay) - Len(needle)) : SubSeq(hay, i + 1, i + Len(needle)) = needle

\* String.prototype.startsWith
startsWith(hay, needle) ==
  Len(needle) <= Len(hay) /\ SubSeq(hay, 1, Len(needle)) = needle

\* collation rank of a character for localeCompare: letters in alphabetical
\* order, the lower-case form of a letter before its upper-case form
CharRank(c) ==
  CASE c = "a" -> 1 [] c = "A" -> 2 [] c = "b" -> 3 [] c = "B" -> 4
    [] c = "c" -> 5 [] c = "C" -> 6 [] c = "d" -> 7 [] c = "e" -> 9
    [] c = "f" -> 11 [] c = "i" -> 17 [] c = "l" -> 23 [] c = "m" -> 25
    [] c = "o" -> 29 [] c = "q" -> 33 [] c = "Q" -> 34 [] c = "z" -> 51
    [] c = "Z" -> 52 [] OTHER -> 0

\* the sign of a.localeCompare(b), on the ranks of the characters
RECURSIVE compareRanks(_, _)
compareRanks(a, b) ==
  IF a = <<>> /\ b = <<>> THEN 0
  ELSE IF a = <<>> THEN -1
  ELSE IF b = <<>> THEN 1
  ELSE IF Head(a) < Head(b) THEN -1
  ELSE IF Head(a) > Head(b) THEN 1
  ELSE compareRanks(Tail(a), Tail(b))

\* strings that are the same word up to case are ordered by their case
caseOrder(primary, a, b) ==
  IF primary # 0 THEN primary
  ELSE compareRanks([i \in 1..Len(a) |-> CharRank(a[i])], [i \in 1..Len(b) |-> CharRank(b[i])])

\* a.localeCompare(b) < 0, = 0, > 0 as -1, 0, 1: the letters decide first,
\* their case only between strings of the same letters
localeCompare(a, b) ==
  caseOrder(compareRanks([i \in 1..Len(a) |-> CharRank(toLowerCaseChar(a[i]))],
                         [i \in 1..Len(b) |-> CharRank(toLowerCaseChar(b[i]))]),
            a, b)

----------------------------------------------------------------------------
(* Registry Accessor *)

\* registry.utilities.find(u => u.name === name)
findUtility(reg, name) ==
  IF \E i \in 1..Len(reg.utilities) : reg.utilities[i].name = name
  THEN reg.utilities[CHOOSE i \in 1..Len(reg.utilities) :
                       /\ reg.utilities[i].name = name
                       /\ \A j \in 1..(i-1) : reg.utilities[j].name # name]
  ELSE NoUtility

\* the filter callback of searchUtilities, on lower-cased strings
matchesLower(u, name, description, lowerQuery, opts) ==
  IF opts.category # Absent /\ u.category # opts.category THEN FALSE
  ELSE IF includes(name, lowerQuery) THEN TRUE
  ELSE IF opts.includeDescription /\ includes(description, lowerQuery) THEN TRUE
  ELSE FALSE

\* a filter callback that compares the strings as they are written
searchMatchesExactCase(u, query, opts) ==
  matchesLower(u, Chars(u.name), Chars(u.description), Chars(query), opts)

searchMatches(u, query, opts) ==
  matchesLower(u, toLowerCase(Chars(u.name)), toLowerCase(Chars(u.description)),
               toLowerCase(Chars(query)), opts)

\* the comparator of results.sort(...), on lower-cased names: negative when a
\* sorts before b
compareLower(a, b, aName, bName, lowerQuery) ==
  IF aName = lowerQuery /\ ~(bName = lowerQuery) THEN -1
  ELSE IF ~(aName = lowerQuery) /\ bName = lowerQuery THEN 1
  ELSE IF startsWith(aName, lowerQuery) /\ ~startsWith(bName, lowerQuery) THEN -1
  ELSE IF ~startsWith(aName, lowerQuery) /\ startsWith(bName, lowerQuery) THEN 1
  ELSE localeCompare(Chars(a.name), Chars(b.name))

\* a comparator that knows the exact match only
compareExactThenName(a, b, query) ==
  IF toLowerCase(Chars(a.name)) = toLowerCase(Chars(query))
       /\ ~(toLowerCase(Chars(b.name)) = toLowerCase(Chars(query))) THEN -1
  ELSE IF ~(toLowerCase(Chars(a.name)) = toLowerCase(Chars(query)))
            /\ toLowerCase(Chars(b.name)) = toLowerCase(Chars(query)) THEN 1
  ELSE localeCompare(Chars(a.name), Chars(b.name))

searchCompare(a, b, query) ==
  compareLower(a, b, toLowerCase(Chars(a.name)), toLowerCase(Chars(b.name)),
               toLowerCase(Chars(query)))

\* Array.prototype.sort is stable: insert x after the last element that does
\* not sort after it
RECURSIVE SortInsert(_, _, _)
SortInsert(sorted, x, query) ==
  IF sorted = <<>> THEN <<x>>
  ELSE IF searchCompare(x, Head(sorted), query) < 0 THEN <<x>> \o sorted
  ELSE <<Head(sorted)>> \o SortInsert(Tail(sorted), x, query)

RECURSIVE SortBy(_, _)
SortBy(xs, query) ==
  IF xs = <<>> THEN <<>>
  ELSE SortInsert(SortBy(SubSeq(xs, 1, Len(xs) - 1), query), xs[Len(xs)], query)

\* registry.utilities.filter(...)
RECURSIVE filterMatches(_, _, _)
filterMatches(utilities, query, opts) ==
  IF utilities = <<>> THEN <<>>
  ELSE (IF searchMatches(Head(utilities), query, opts) THEN <<Head(utilities)>> ELSE <<>>)
         \o filterMatches(Tail(utilities), query, opts)

\* options.limit ? results.slice(0, options.limit) : results; a limit of 0
\* stands for an undefined limit (both are falsy)
limitResults(results, limit) ==
  IF limit # 0
  THEN SubSeq(results, 1, IF limit < Len(results) THEN limit ELSE Len(results))
  ELSE results

searchUtilities(reg, query, opts) ==
  limitResults(SortBy(filterMatches(reg.utilities, query, opts), query), opts.limit)

----------------------------------------------------------------------------
(* add: category expansion and validation *)

utilityCategories(reg) == [i \in 1..Len(reg.utilities) |-> reg.utilities[i].category]

\* registry.utilities.filter(u => u.category === name).map(u => u.name)
categoryUtilities(reg, name) ==
  mapName(SelectSeq(reg.utilities, LAMBDA u : u.category = name))

RECURSIVE expandLoop(_, _, _)
expandLoop(reg, utilityNames, expanded) ==
  IF utilityNames = <<>> THEN expanded
  ELSE expandLoop(reg, Tail(utilityNames),
                  IF Head(utilityNames) \in Range(utilityCategories(reg))
                  THEN expanded \o categoryUtilities(reg, Head(utilityNames))
                  ELSE Append(expanded, Head(utilityNames)))

expandCategoryNames(reg, utilityNames) ==
  IF Len(utilityNames) = 0 THEN utilityCategories(reg)
  ELSE expandLoop(reg, utilityNames, <<>>)

SuggestionLimit == 3

\* searchUtilities(registry, name, { limit: 3, includeDescription: true })
similarTo(reg, name) ==
  searchUtilities(reg, name,
                  [limit |-> SuggestionLimit, category |-> Absent, includeDescription |-> TRUE])

RECURSIVE validateLoop(_, _, _)
validateLoop(reg, utilityNames, acc) ==
  IF utilityNames = <<>> THEN acc
  ELSE validateLoop(reg, Tail(utilityNames),
         IF findUtility(reg, Head(utilityNames)) # NoUtility
         THEN [acc EXCEPT !.valid = Append(@, Head(utilityNames))]
         ELSE [acc EXCEPT !.invalid = Append(@, Head(utilityNames)),
                          !.suggestions = @ \o similarTo(reg, Head(utilityNames))])

\* suggestions.filter((s, index, arr) => arr.findIndex(t => t.name === s.name) === index)
RECURSIVE uniqueSuggestions(_, _)
uniqueSuggestions(suggestions, kept) ==
  IF suggestions = <<>> THEN kept
  ELSE uniqueSuggestions(Tail(suggestions),
         IF Head(suggestions).name \in Range(mapName(kept)) THEN kept
         ELSE Append(kept, Head(suggestions)))

validated(acc) ==
  [valid |-> acc.valid, invalid |-> acc.invalid,
   suggestions |-> uniqueSuggestions(acc.suggestions, <<>>)]

validateUtilities(reg, utilityNames) ==
  validated(validateLoop(reg, utilityNames,
                         [valid |-> <<>>, invalid |-> <<>>, suggestions |-> <<>>]))

----------------------------------------------------------------------------
(* Dependency Resolver *)

NoError == [kind |-> "none", name |-> Absent]

\* a DependencyMap: utility name -> its Set of dependency names
mapSet(m, k, v) == [x \in DOMAIN m \cup {k} |-> IF x = k THEN v ELSE m[x]]

\* dependencyMap[utilityName] = allDeps; return Array.from(allDeps)
collected(utilityName, r) ==
  IF r.st.err # NoError THEN [st |-> r.st, ret |-> <<>>]
  ELSE [st |-> [r.st EXCEPT !.dependencyMap = mapSet(@, utilityName, r.ret)], ret |-> r.ret]

\* collectDependencies(utilityName): st carries the closure's visited set and
\* dependencyMap and the exception in flight; ret is the returned array
RECURSIVE collectDependencies(_, _, _, _)
RECURSIVE collectEach(_, _, _, _, _)
RECURSIVE collectFound(_, _, _, _, _)

collectDependencies(reg, noDeps, utilityName, st) ==
  IF st.err # NoError THEN [st |-> st, ret |-> <<>>]
  ELSE IF utilityName \in st.visited THEN [st |-> st, ret |-> <<>>]
  ELSE collectFound(reg, noDeps, utilityName, findUtility(reg, utilityName),
                    [st EXCEPT !.visited = @ \cup {utilityName}])

\* collectDependencies after visited.add(utilityName)
collectFound(reg, noDeps, utilityName, utility, st) ==
  IF utility = NoUtility
  THEN [st |-> [st EXCEPT !.err = [kind |-> "not_found", name |-> utilityName]], ret |-> <<>>]
  ELSE collected(utilityName,
                 IF noDeps THEN [st |-> st, ret |-> Unique(utility.dependencies)]
                 ELSE collectEach(reg, noDeps, utility.dependencies, st,
                                  Unique(utility.dependencies)))

\* allDeps after collectDependencies(dep) returned r
addTransitive(allDeps, r) == [st |-> r.st, ret |-> SetAddAll(allDeps, r.ret)]

\* dependencies.forEach(dep => collectDependencies(dep).forEach(t => allDeps.add(t)));
\* acc is [st, ret] with ret the Set allDeps
RECURSIVE collectAll(_, _, _, _)
collectAll(reg, noDeps, deps, acc) ==
  IF deps = <<>> \/ acc.st.err # NoError THEN acc
  ELSE collectAll(reg, noDeps, Tail(deps),
                  addTransitive(acc.ret, collectDependencies(reg, noDeps, Head(deps), acc.st)))

collectEach(reg, noDeps, deps, st, allDeps) ==
  collectAll(reg, noDeps, deps, [st |-> st, ret |-> allDeps])

\* visiting.delete(utilityName); visited.add(utilityName); result.push(utilityName)
visitDone(utilityName, st) ==
  IF st.err # NoError THEN st
  ELSE [st EXCEPT !.visiting = @ \ {utilityName},
                  !.visited = @ \cup {utilityName},
                  !.result = Append(@, utilityName)]

\* visit(utilityName) of topologicalSort: st carries visited, visiting, result
\* and the exception in flight
RECURSIVE visit(_, _, _, _)
RECURSIVE visitEach(_, _, _, _)
RECURSIVE visitFound(_, _, _, _, _)

\* a visit that breaks cycles silently: a utility being visited is skipped
visitSilently(reg, utilities, utilityName, st) ==
  IF st.err # NoError THEN st
  ELSE IF utilityName \in st.visiting \/ utilityName \in st.visited THEN st
  ELSE visitFound(reg, utilities, utilityName, findUtility(reg, utilityName),
                  [st EXCEPT !.visiting = @ \cup {utilityName}])

visit(reg, utilities, utilityName, st) ==
  IF st.err # NoError THEN st
  ELSE IF utilityName \in st.visiting
       THEN [st EXCEPT !.err = [kind |-> "circular", name |-> utilityName]]
  ELSE IF utilityName \in st.visited THEN st
  ELSE visitFound(reg, utilities, utilityName, findUtility(reg, utilityName),
                  [st EXCEPT !.visiting = @ \cup {utilityName}])

\* visit after visiting.add(utilityName)
visitFound(reg, utilities, utilityName, utility, st) ==
  visitDone(utilityName,
          IF utility # NoUtility THEN visitEach(reg, utilities, utility.dependencies, st)
          ELSE st)

\* for (const dep of utility.dependencies) if (utilities.includes(dep)) visit(dep)
visitEach(reg, utilities, deps, st) ==
  IF deps = <<>> \/ st.err # NoError THEN st
  ELSE visitEach(reg, utilities, Tail(deps),
                 IF Head(deps) \in Range(utilities)
                 THEN visit(reg, utilities, Head(deps), st)
                 ELSE st)

RECURSIVE topoLoop(_, _, _, _)
topoLoop(reg, utilities, uniqueUtilities, st) ==
  IF uniqueUtilities = <<>> \/ st.err # NoError THEN st
  ELSE topoLoop(reg, utilities, Tail(uniqueUtilities),
                visit(reg, utilities, Head(uniqueUtilities), st))

\* a sort that returns the names in the order of their discovery
discoveryOrder(reg, utilities) ==
  [visited |-> Range(utilities), visiting |-> {}, result |-> Unique(utilities), err |-> NoError]

topologicalSort(reg, utilities) ==
  topoLoop(reg, utilities, Unique(utilities),
           [visited |-> {}, visiting |-> {}, result |-> <<>>, err |-> NoError])

\* for (const utilityName of utilityNames) collectDependencies(utilityName)
\*   .forEach(dep => allDependencies.add(dep)); acc is [st, ret]
RECURSIVE resolveLoop(_, _, _, _)
resolveLoop(reg, noDeps, utilityNames, acc) ==
  IF utilityNames = <<>> \/ acc.st.err # NoError THEN acc
  ELSE resolveLoop(reg, noDeps, Tail(utilityNames),
                   addTransitive(acc.ret,
                                 collectDependencies(reg, noDeps, Head(utilityNames), acc.st)))

\* { toInstall: orderedInstallation, dependencyMap }
resolved(dependencyMap, t) ==
  IF t.err # NoError
  THEN [err |-> t.err, toInstall |-> <<>>, dependencyMap |-> <<>>]
  ELSE [err |-> NoError, toInstall |-> t.result, dependencyMap |-> dependencyMap]

\* an install order that puts the requested names before what they need
requestedFirst(reg, utilityNames, c) ==
  IF c.st.err # NoError
  THEN [err |-> c.st.err, toInstall |-> <<>>, dependencyMap |-> <<>>]
  ELSE [err |-> NoError, toInstall |-> Unique(utilityNames \o c.ret),
        dependencyMap |-> c.st.dependencyMap]

\* the rest of resolveDependencies after the collecting loop returned c
sortCollected(reg, utilityNames, c) ==
  IF c.st.err # NoError
  THEN [err |-> c.st.err, toInstall |-> <<>>, dependencyMap |-> <<>>]
  ELSE resolved(c.st.dependencyMap, topologicalSort(reg, c.ret \o utilityNames))

\* a resolution that orders the requested names and collects nothing
resolveRequested(reg, utilityNames, noDeps) ==
  resolved(<<>>, topologicalSort(reg, utilityNames))

\* returns [err, toInstall, dependencyMap]; err # NoError is the thrown Error
resolveDependencies(reg, utilityNames, noDeps) ==
  sortCollected(reg, utilityNames,
                resolveLoop(reg, noDeps, utilityNames,
                            [st |-> [visited |-> {}, dependencyMap |-> <<>>, err |-> NoError],
                             ret |-> <<>>]))

\* one call of resolveDependencies: what it hands to topologicalSort and
\* what it returns or throws
Resolve(utilityNames, noDeps) ==
  /\ last' = [cmd |-> "resolve", names |-> utilityNames, noDeps |-> noDeps,
              handed |-> resolveLoop(registry, noDeps, utilityNames,
                                     [st |-> [visited |-> {}, dependencyMap |-> <<>>,
                                              err |-> NoError],
                                      ret |-> <<>>]).ret \o utilityNames,
              resolution |-> resolveDependencies(registry, utilityNames, noDeps)]
  /\ UNCHANGED <<registry, sources, dotConfig, legacyConfig, initFile, tsMarker, dirs, files>>

----------------------------------------------------------------------------
(* Project Config Locator *)

DefaultDir == "lib/utils"
CustomDir == "src/helpers"
Dirs == {DefaultDir, CustomDir}

\* a locator that lets the legacy config file win over the new-format one
legacyConfigFirst(dot, legacy, marker, ds) ==
  IF legacy # NoFile
  THEN [typescript |-> TRUE,
        directory |-> IF legacy.utilsPath = Absent THEN DefaultDir ELSE legacy.utilsPath]
  ELSE IF dot # NoFile
  THEN [typescript |-> dot.typescript,
        directory |-> IF dot.directory = Absent THEN DefaultDir ELSE dot.directory]
  ELSE IF DefaultDir \in ds
  THEN [typescript |-> marker, directory |-> DefaultDir]
  ELSE NoConfig

\* getProjectConfig of add.ts (also used by isUtilityInstalled)
getProjectConfig(dot, legacy, marker, ds) ==
  IF dot # NoFile
  THEN [typescript |-> dot.typescript,
        directory |-> IF dot.directory = Absent THEN DefaultDir ELSE dot.directory]
  ELSE IF legacy # NoFile
  THEN [typescript |-> TRUE,
        directory |-> IF legacy.utilsPath = Absent THEN DefaultDir ELSE legacy.utilsPath]
  ELSE LET hasTypeScript == marker IN
       IF DefaultDir \in ds
       THEN [typescript |-> hasTypeScript, directory |-> DefaultDir]
       ELSE NoConfig

\* getProjectConfig of remove.ts
removeGetProjectConfig(dot, ds) ==
  IF dot # NoFile
  THEN [typescript |-> dot.typescript,
        directory |-> IF dot.directory = Absent THEN DefaultDir ELSE dot.directory]
  ELSE IF DefaultDir \in ds
  THEN [typescript |-> FALSE, directory |-> DefaultDir]
  ELSE NoConfig

----------------------------------------------------------------------------
(* Installer *)

Providers == <<"src/utils/<category>", "utils/<category>", "utils", "registry/templates">>

\* getUtilityContent: the first provider directory that holds the file
RECURSIVE tryProviders(_, _, _)
tryProviders(src, utility, i) ==
  IF i > Len(Providers) THEN NoFile
  ELSE IF src[Providers[i]][utility.name] # NoFile THEN src[Providers[i]][utility.name]
  ELSE tryProviders(src, utility, i + 1)

getUtilityContent(src, utility) == tryProviders(src, utility, 1)

\* utilityContent[name] of the generated content module, which add.ts does
\* not import
utilityContent(src, name) == src["utilityContent"][name]

\* utility.file.replace(/\.(js|ts)$/, '.' + ext)
installFileName(utility, typescript) ==
  IF utility.file.ext \in {"js", "ts"}
  THEN [utility.file EXCEPT !.ext = IF typescript THEN "ts" ELSE "js"]
  ELSE utility.file

\* typescript ? file.replace(/\.js$/, '.ts') : file.replace(/\.ts$/, '.js')
installedFileName(utility, typescript) ==
  IF typescript
  THEN IF utility.file.ext = "js" THEN [utility.file EXCEPT !.ext = "ts"] ELSE utility.file
  ELSE IF utility.file.ext = "ts" THEN [utility.file EXCEPT !.ext = "js"] ELSE utility.file

\* path.join(config.rootPath, config.directory, fileName); a file name may
\* carry a directory part ("<category>/<name>.ts")
targetPath(config, fileName) ==
  [dir |-> IF fileName.sub = Absent THEN config.directory
           ELSE config.directory \o "/" \o fileName.sub,
   stem |-> fileName.stem, ext |-> fileName.ext]


\* isTypeScriptContent(content): the regular expressions see type syntax
isTypeScriptContent(content) == content.typed

\* the mode transformation of installUtility
transformContent(content, typescript) ==
  IF ~typescript /\ isTypeScriptContent(content)
  THEN [of |-> content.of, typed |-> FALSE, by |-> "transformTypeScriptToJavaScript"]
  ELSE IF typescript /\ ~isTypeScriptContent(content)
  THEN [of |-> content.of, typed |-> TRUE, by |-> "addBasicTypeAnnotations"]
  ELSE [of |-> content.of, typed |-> content.typed, by |-> "copy"]

\* 'overwritten' or 'installed', computed after the write
writtenStatus(fs, targetFile, options) ==
  IF fs[targetFile] # NoFile /\ options.overwrite THEN "overwritten" ELSE "installed"

\* an existence check that never skips
neverSkip(fs, targetFile, options) == FALSE

\* if (await fs.pathExists(targetFile)) { if (!options.overwrite) return skipped }
shouldSkip(fs, targetFile, options) == fs[targetFile] # NoFile /\ ~options.overwrite

\* an InstallationResult without a path
failedResult(utilityName, error) ==
  [utility |-> utilityName, status |-> "failed", path |-> NoFile, error |-> error]

\* the return after fs.writeFile(targetFile, content) left the project as written
writtenResult(utility, targetFile, options, written) ==
  [proj |-> written,
   result |-> [utility |-> utility.name,
               status |-> writtenStatus(written.files, targetFile, options),
               path |-> targetFile, error |-> Absent]]

\* an installUtility that writes the source after what the target file held
installAppending(utility, config, options, proj, io, targetFile, content) ==
  IF shouldSkip(proj.files, targetFile, options)
  THEN [proj |-> proj,
        result |-> [utility |-> utility.name, status |-> "skipped", path |-> targetFile,
                    error |-> Absent]]
  ELSE IF content = NoFile
  THEN [proj |-> proj, result |-> failedResult(utility.name, "Source file not found")]
  ELSE IF io = "ensureDir"
  THEN [proj |-> proj, result |-> failedResult(utility.name, "ensureDir failed")]
  ELSE IF io = "writeFile"
  THEN [proj |-> [proj EXCEPT !.dirs = @ \cup {config.directory, targetFile.dir}],
        result |-> failedResult(utility.name, "writeFile failed")]
  ELSE writtenResult(utility, targetFile, options,
                     [files |-> [proj.files EXCEPT ![targetFile] =
                                   IF @ = NoFile
                                   THEN transformContent(content, config.typescript)
                                   ELSE [of |-> content.of, typed |-> @.typed,
                                         by |-> "append"]],
                      dirs |-> proj.dirs \cup {config.directory, targetFile.dir}])

\* installUtility from the existence check on; io names the I/O call that
\* throws for this utility ("none" when none does)
installAt(utility, config, options, proj, io, targetFile, content) ==
  IF shouldSkip(proj.files, targetFile, options)
  THEN [proj |-> proj,
        result |-> [utility |-> utility.name, status |-> "skipped", path |-> targetFile,
                    error |-> Absent]]
  ELSE IF content = NoFile
  THEN [proj |-> proj, result |-> failedResult(utility.name, "Source file not found")]
  ELSE IF io = "ensureDir"
  THEN [proj |-> proj, result |-> failedResult(utility.name, "ensureDir failed")]
  ELSE IF io = "writeFile"
  THEN [proj |-> [proj EXCEPT !.dirs = @ \cup {config.directory, targetFile.dir}],
        result |-> failedResult(utility.name, "writeFile failed")]
  ELSE writtenResult(utility, targetFile, options,
                     [files |-> [proj.files EXCEPT ![targetFile] =
                                   transformContent(content, config.typescript)],
                      dirs |-> proj.dirs \cup {config.directory, targetFile.dir}])

\* installUtility(utility, config, options) on the project state [files, dirs]
installUtility(src, utility, config, options, proj, io) ==
  installAt(utility, config, options, proj, io,
            targetPath(config, installFileName(utility, config.typescript)),
            getUtilityContent(src, utility))

\* isUtilityInstalled with the config and the registry entry it looked up
installedAt(config, utility, fs) ==
  IF config = NoConfig THEN FALSE
  ELSE IF utility = NoUtility THEN FALSE
  ELSE fs[targetPath(config, installedFileName(utility, config.typescript))] # NoFile

\* isUtilityInstalled(utilityName)
isUtilityInstalled(reg, dot, legacy, marker, ds, fs, utilityName) ==
  installedAt(getProjectConfig(dot, legacy, marker, ds), findUtility(reg, utilityName), fs)

----------------------------------------------------------------------------
(* Placeholder type annotations; a content is a sequence of characters     *)

\* \w and the text put in place of a match
WordChars == {"x", "1", "a", "n", "y"}
typeAnnotation == <<":", " ", "a", "n", "y">>

\* the end of a greedy run of characters of a class that starts at i
RECURSIVE skipWhile(_, _, _)
skipWhile(content, i, class) ==
  IF i > Len(content) \/ content[i] \notin class THEN i
  ELSE skipWhile(content, i + 1, class)

\* the end of a greedy run of characters outside a class that starts at i
RECURSIVE skipUntil(_, _, _)
skipUntil(content, i, class) ==
  IF i > Len(content) \/ content[i] \in class THEN i
  ELSE skipUntil(content, i + 1, class)

\* content.replace(/(\w+)\s*=\s*[^;]+;/g, '$1: any;') from position i on; w
\* ends the word at i, e the blanks after it, r the run that follows '='
RECURSIVE replaceAssignments(_, _)
replaceAssignmentAt(content, i, w, e, r) ==
  IF /\ w > i
     /\ e <= Len(content) /\ content[e] = "="
     /\ r <= Len(content) /\ r > e + 1
  THEN SubSeq(content, i, w - 1) \o typeAnnotation \o <<";">>
         \o replaceAssignments(content, r + 1)
  ELSE <<content[i]>> \o replaceAssignments(content, i + 1)

replaceAssignments(content, i) ==
  IF i > Len(content) THEN <<>>
  ELSE replaceAssignmentAt(content, i, skipWhile(content, i, WordChars),
                           skipWhile(content, skipWhile(content, i, WordChars), {" "}),
                           skipUntil(content,
                                     skipWhile(content, skipWhile(content, i, WordChars), {" "}) + 1,
                                     {";"}))

\* content.replace(/(\w+)\s*:\s*[^<stops>\n]+(?=[<stops>])/g, '$1: any') from
\* position i on
RECURSIVE replaceAnnotations(_, _, _)
replaceAnnotationAt(content, i, stops, w, e, r) ==
  IF /\ w > i
     /\ e <= Len(content) /\ content[e] = ":"
     /\ r <= Len(content) /\ content[r] \in stops /\ r > e + 1
  THEN SubSeq(content, i, w - 1) \o typeAnnotation \o replaceAnnotations(content, r, stops)
  ELSE <<content[i]>> \o replaceAnnotations(content, i + 1, stops)

replaceAnnotations(content, i, stops) ==
  IF i > Len(content) THEN <<>>
  ELSE replaceAnnotationAt(content, i, stops, skipWhile(content, i, WordChars),
                           skipWhile(content, skipWhile(content, i, WordChars), {" "}),
                           skipUntil(content,
                                     skipWhile(content, skipWhile(content, i, WordChars), {" "}) + 1,
                                     stops \cup {"\n"}))

addBasicTypeAnnotations(content) ==
  replaceAnnotations(replaceAnnotations(replaceAssignments(content, 1), 1, {",", ")", "="}),
                     1, {"=", ";", ",", ")"})

\* the installer's step for an untyped source in a typed project
Annotate ==
  /\ last.cmd = "source"
  /\ last' = [cmd |-> "annotate", source |-> last.content,
              written |-> addBasicTypeAnnotations(last.content)]
  /\ UNCHANGED <<registry, sources, dotConfig, legacyConfig, initFile, tsMarker, dirs, files>>

----------------------------------------------------------------------------
(* dataURItoFile; a string is a sequence of characters                     *)

\* content.split(sep), continued from the parts read so far
RECURSIVE split(_, _, _)
split(content, sep, parts) ==
  IF content = <<>> THEN parts
  ELSE IF Head(content) = sep THEN split(Tail(content), sep, Append(parts, <<>>))
  ELSE split(Tail(content), sep, [parts EXCEPT ![Len(parts)] = Append(@, Head(content))])

\* a match that runs to the last ';' of the header
greedyMimeMatch(header) ==
  IF \E c, s \in 1..Len(header) : c < s /\ header[c] = ":" /\ header[s] = ";"
  THEN [matched |-> TRUE,
        capture |-> SubSeq(header, skipUntil(header, 1, {":"}) + 1,
                           (CHOOSE s \in 1..Len(header) :
                              header[s] = ";" /\ \A t \in (s + 1)..Len(header) : header[t] # ";") - 1)]
  ELSE [matched |-> FALSE, capture |-> <<>>]

\* header.match(/:(.*?);/): the capture of the leftmost, shortest match;
\* matched is FALSE for null
mimeMatch(header) ==
  IF \E c, s \in 1..Len(header) : c < s /\ header[c] = ":" /\ header[s] = ";"
  THEN [matched |-> TRUE,
        capture |-> SubSeq(header, skipUntil(header, 1, {":"}) + 1,
                           skipUntil(header, skipUntil(header, 1, {":"}) + 1, {";"}) - 1)]
  ELSE [matched |-> FALSE, capture |-> <<>>]

\* atob(data): throws on a character outside the base64 alphabet and on a
\* length that no encoding has; else the number of bytes it decodes to
atob(data) ==
  IF (\E i \in 1..Len(data) : data[i] \notin {"d", "t"}) \/ Len(data) % 4 = 1
  THEN [threw |-> TRUE, length |-> 0]
  ELSE [threw |-> FALSE, length |-> (Len(data) * 6) \div 8]

dataURItoFile(dataURI, filename) ==
  IF Len(split(dataURI, ",", <<<<>>>>)) # 2
  THEN [threw |-> TRUE, error |-> "Invalid data URI format", file |-> NoFile]
  ELSE IF atob(split(dataURI, ",", <<<<>>>>)[2]).threw
  THEN [threw |-> TRUE, error |-> "InvalidCharacterError", file |-> NoFile]
  ELSE [threw |-> FALSE, error |-> Absent,
        file |-> [name |-> filename,
                  type |-> IF mimeMatch(split(dataURI, ",", <<<<>>>>)[1]).matched
                           THEN mimeMatch(split(dataURI, ",", <<<<>>>>)[1]).capture
                           ELSE <<"application/octet-stream">>,
                  size |-> atob(split(dataURI, ",", <<<<>>>>)[2]).length]]

\* a call of dataURItoFile and what it returned or threw
DataURItoFile ==
  /\ last.cmd = "call"
  /\ last' = [cmd |-> "dataURItoFile", dataURI |-> last.dataURI, filename |-> last.filename,
              returned |-> dataURItoFile(last.dataURI, last.filename)]
  /\ UNCHANGED <<registry, sources, dotConfig, legacyConfig, initFile, tsMarker, dirs, files>>

----------------------------------------------------------------------------
(* add *)

NoFail == [name |-> Absent, at |-> "none"]

\* a mark by position: everything but the last requested name is a dependency
isNotLastRequested(valid, utilityName) == utilityName # valid[Len(valid)]

\* const isDependency = !valid.includes(utilityName)
isDependency(valid, utilityName) == utilityName \notin Range(valid)

\* result.isDependency = isDependency; results.push(result)
pushResult(results, result, dependency) ==
  Append(results, [utility |-> result.utility, status |-> result.status,
                   path |-> result.path, error |-> result.error,
                   isDependency |-> dependency])

\* the loop body after installUtility returned r
installed(results, dependency, r) ==
  [proj |-> r.proj, results |-> pushResult(results, r.result, dependency)]

\* one iteration of the installation loop: acc is [proj, results]; a name
\* that findUtility does not know makes installUtility throw inside its try
installNext(src, reg, utilityName, utility, valid, config, options, io, acc) ==
  IF utility = NoUtility
  THEN [proj |-> acc.proj,
        results |-> pushResult(acc.results, failedResult(utilityName, "TypeError"),
                               isDependency(valid, utilityName))]
  ELSE installed(acc.results, isDependency(valid, utilityName),
                 installUtility(src, utility, config, options, acc.proj, io))

\* a loop that stops at the first failed result
RECURSIVE installUntilFailure(_, _, _, _, _, _, _, _)
installUntilFailure(src, reg, toInstall, valid, config, options, fail, acc) ==
  IF toInstall = <<>> THEN acc
  ELSE IF acc.results # <<>> /\ acc.results[Len(acc.results)].status = "failed" THEN acc
  ELSE installUntilFailure(src, reg, Tail(toInstall), valid, config, options, fail,
                           installNext(src, reg, Head(toInstall),
                                       findUtility(reg, Head(toInstall)),
                                       valid, config, options,
                                       IF fail.name = Head(toInstall) THEN fail.at ELSE "none",
                                       acc))

\* for (const utilityName of toInstall) { ... results.push(result) }
RECURSIVE installLoop(_, _, _, _, _, _, _, _)
installLoop(src, reg, toInstall, valid, config, options, fail, acc) ==
  IF toInstall = <<>> THEN acc
  ELSE installLoop(src, reg, Tail(toInstall), valid, config, options, fail,
                   installNext(src, reg, Head(toInstall), findUtility(reg, Head(toInstall)),
                               valid, config, options,
                               IF fail.name = Head(toInstall) THEN fail.at ELSE "none",
                               acc))

\* what the command printed and how it ended
addReport(utilityNames, options, fail, expanded, v) ==
  [cmd |-> "add", outcome |-> "", names |-> utilityNames, options |-> options,
   fail |-> fail, expanded |-> expanded, valid |-> v.valid, invalid |-> v.invalid,
   suggestions |-> mapName(v.suggestions),
   config |-> NoConfig, toInstall |-> <<>>, dependencyMap |-> <<>>,
   results |-> <<>>, error |-> NoError, exitCode |-> 0]

\* add after the installation loop returned l
addInstalled(config, report, r, l) ==
  [proj |-> l.proj,
   out |-> [report EXCEPT !.outcome = "done", !.config = config,
                          !.toInstall = r.toInstall, !.dependencyMap = r.dependencyMap,
                          !.results = l.results]]

\* add after resolveDependencies returned (or threw) r
addResolved(reg, src, proj, options, fail, config, report, r) ==
  IF r.err # NoError
  THEN [proj |-> proj,
        out |-> [report EXCEPT !.outcome = "error", !.config = config,
                               !.error = r.err, !.exitCode = 1]]
  ELSE addInstalled(config, report, r,
                    installLoop(src, reg, r.toInstall, report.valid, config, options, fail,
                                [proj |-> proj, results |-> <<>>]))

\* an add that installs into the default directory when it finds no config
addWithDefaultConfig(reg, src, proj, options, fail, config, report) ==
  IF Len(report.invalid) > 0
  THEN [proj |-> proj, out |-> [report EXCEPT !.outcome = "invalid"]]
  ELSE addResolved(reg, src, proj, options, fail,
                   IF config = NoConfig THEN [typescript |-> FALSE, directory |-> DefaultDir]
                   ELSE config,
                   report, resolveDependencies(reg, report.valid, options.noDeps))

\* add after validateUtilities and getProjectConfig
addValidated(reg, src, proj, options, fail, config, report) ==
  IF Len(report.invalid) > 0
  THEN [proj |-> proj, out |-> [report EXCEPT !.outcome = "invalid"]]
  ELSE IF config = NoConfig
  THEN [proj |-> proj, out |-> [report EXCEPT !.outcome = "not_initialized"]]
  ELSE addResolved(reg, src, proj, options, fail, config, report,
                   resolveDependencies(reg, report.valid, options.noDeps))

\* add after expandCategoryNames
addExpanded(reg, src, proj, utilityNames, options, fail, config, expanded) ==
  addValidated(reg, src, proj, options, fail, config,
               addReport(utilityNames, options, fail, expanded,
                         validateUtilities(reg, expanded)))

\* what add(utilityNames, options) does to the project, and what it reports
addOutcome(reg, src, dot, legacy, marker, proj, utilityNames, options, fail) ==
  addExpanded(reg, src, proj, utilityNames, options, fail,
              getProjectConfig(dot, legacy, marker, proj.dirs),
              expandCategoryNames(reg, utilityNames))

Add(utilityNames, options, fail) ==
  \E a \in {addOutcome(registry, sources, dotConfig, legacyConfig, tsMarker,
                       [files |-> files, dirs |-> dirs], utilityNames, options, fail)} :
     /\ files' = a.proj.files
     /\ dirs' = a.proj.dirs
     /\ last' = a.out
     /\ UNCHANGED <<registry, sources, dotConfig, legacyConfig, initFile, tsMarker>>

----------------------------------------------------------------------------
(* remove *)

\* validateRemovalTargets: isUtilityInstalled resolves the config of add.ts
RECURSIVE validateRemovalTargets(_, _, _, _, _, _, _, _)
validateRemovalTargets(reg, dot, legacy, marker, ds, fs, utilityNames, acc) ==
  IF utilityNames = <<>> THEN acc
  ELSE validateRemovalTargets(reg, dot, legacy, marker, ds, fs, Tail(utilityNames),
         IF findUtility(reg, Head(utilityNames)) = NoUtility
         THEN [acc EXCEPT !.invalid = Append(@, Head(utilityNames))]
         ELSE IF ~isUtilityInstalled(reg, dot, legacy, marker, ds, fs, Head(utilityNames))
         THEN [acc EXCEPT !.notInstalled = Append(@, Head(utilityNames))]
         ELSE [acc EXCEPT !.valid = Append(@, Head(utilityNames))])

\* the category tags a directory can be named after
SubdirNames == {"dom", "file", "C"}

\* path.join(config.rootPath, config.directory, utility.category)
categoryDir(config, utility) == config.directory \o "/" \o utility.category

\* fs.readdir(dir): the files directly in dir and its subdirectories
readdir(proj, dir) ==
  {p \in DOMAIN proj.files : p.dir = dir /\ proj.files[p] # NoFile}
    \cup {[subdir |-> d] : d \in {e \in proj.dirs : \E c \in SubdirNames : e = dir \o "/" \o c}}

\* a clean-up that removes the category directory with whatever it holds
removeCategoryDir(proj, cdir) ==
  [files |-> [p \in DOMAIN proj.files |-> IF p.dir = cdir THEN NoFile ELSE proj.files[p]],
   dirs |-> proj.dirs \ {cdir}]

\* if (await fs.pathExists(categoryDir)) { if (readdir is empty) fs.remove(categoryDir) }
tidy(proj, cdir) ==
  IF cdir \in proj.dirs /\ readdir(proj, cdir) = {}
  THEN [proj EXCEPT !.dirs = @ \ {cdir}]
  ELSE proj

\* removeUtility from the existence check on
removeAt(utility, config, proj, io, targetFile) ==
  IF proj.files[targetFile] = NoFile
  THEN [proj |-> proj,
        result |-> [utility |-> utility.name, status |-> "not_installed",
                    path |-> NoFile, error |-> "File not found"]]
  ELSE IF io = "remove"
  THEN [proj |-> proj,
        result |-> [utility |-> utility.name, status |-> "failed",
                    path |-> NoFile, error |-> "remove failed"]]
  ELSE [proj |-> tidy([proj EXCEPT !.files[targetFile] = NoFile], categoryDir(config, utility)),
        result |-> [utility |-> utility.name, status |-> "removed",
                    path |-> targetFile, error |-> Absent]]

\* removeUtility(utility, config); io = "remove" when fs.remove throws
removeUtility(utility, config, proj, io) ==
  removeAt(utility, config, proj, io,
           targetPath(config, installedFileName(utility, config.typescript)))

\* results.push(result)
removed(results, r) == [proj |-> r.proj, results |-> Append(results, r.result)]

\* for (const utilityName of valid) { ... results.push(result) }; acc is
\* [proj, results]
RECURSIVE removeLoop(_, _, _, _, _)
removeLoop(reg, valid, config, fail, acc) ==
  IF valid = <<>> THEN acc
  ELSE removeLoop(reg, Tail(valid), config, fail,
                  removed(acc.results,
                          removeUtility(findUtility(reg, Head(valid)), config, acc.proj,
                                        IF fail.name = Head(valid) THEN fail.at ELSE "none")))

\* getInstalledUtilities()
getInstalledUtilities(reg, dot, legacy, marker, ds, fs) ==
  mapName(SelectSeq(reg.utilities,
                    LAMBDA u : isUtilityInstalled(reg, dot, legacy, marker, ds, fs, u.name)))

\* the dependency entries of the named utilities, in order
RECURSIVE allDependencyNames(_, _)
allDependencyNames(reg, names) ==
  IF names = <<>> THEN <<>>
  ELSE (IF findUtility(reg, Head(names)) = NoUtility THEN <<>>
        ELSE findUtility(reg, Head(names)).dependencies)
         \o allDependencyNames(reg, Tail(names))

\* Array.from(allDependencies).filter(dep => !usedDependencies.has(dep))
orphanedDeps(allDependencies, usedDependencies) ==
  SelectSeq(allDependencies, LAMBDA dep : dep \notin usedDependencies)

\* checkOrphanedDependencies: the names it prints; an error inside the scan
\* (io = "scan") is caught and nothing is printed
checkOrphanedDependencies(reg, dot, legacy, marker, proj, io) ==
  IF io = "scan" THEN <<>>
  ELSE
  orphanedDeps(Unique(allDependencyNames(reg, mapName(reg.utilities))),
               Range(allDependencyNames(reg,
                       getInstalledUtilities(reg, dot, legacy, marker, proj.dirs, proj.files))))

\* what the command printed and how it ended
removeReport(utilityNames, config, fail) ==
  [cmd |-> "remove", outcome |-> "", names |-> utilityNames, config |-> config,
   fail |-> fail, valid |-> <<>>, invalid |-> <<>>, notInstalled |-> <<>>,
   results |-> <<>>, orphans |-> <<>>, exitCode |-> 0]

\* the project without the files of the named utilities
RECURSIVE withoutFilesOf(_, _, _, _)
withoutFilesOf(reg, config, names, proj) ==
  IF names = <<>> THEN proj
  ELSE withoutFilesOf(reg, config, Tail(names),
         [proj EXCEPT !.files[targetPath(config,
                                         installedFileName(findUtility(reg, Head(names)),
                                                           config.typescript))] = NoFile])

\* a remove whose orphan scan deletes the files of the names it flags
removeDoneAndOrphans(reg, dot, legacy, marker, report, v, l) ==
  [proj |-> withoutFilesOf(reg, report.config,
                           checkOrphanedDependencies(reg, dot, legacy, marker, l.proj,
                                                     report.fail.at),
                           l.proj),
   out |-> [report EXCEPT !.outcome = "done", !.valid = v.valid, !.invalid = v.invalid,
                          !.notInstalled = v.notInstalled, !.results = l.results,
                          !.orphans = checkOrphanedDependencies(reg, dot, legacy, marker,
                                                                l.proj, report.fail.at)]]

\* remove after the removal loop returned l
removeDone(reg, dot, legacy, marker, report, v, l) ==
  [proj |-> l.proj,
   out |-> [report EXCEPT !.outcome = "done", !.valid = v.valid, !.invalid = v.invalid,
                          !.notInstalled = v.notInstalled, !.results = l.results,
                          !.orphans = checkOrphanedDependencies(reg, dot, legacy, marker,
                                                                l.proj, report.fail.at)]]

\* remove after validateRemovalTargets returned v
removeValidated(reg, dot, legacy, marker, proj, fail, config, report, v) ==
  IF Len(v.valid) = 0
  THEN [proj |-> proj,
        out |-> [report EXCEPT !.outcome = "nothing", !.invalid = v.invalid,
                               !.notInstalled = v.notInstalled]]
  ELSE removeDone(reg, dot, legacy, marker, report, v,
                  removeLoop(reg, v.valid, config, fail, [proj |-> proj, results |-> <<>>]))

\* remove after getProjectConfig
removeConfigured(reg, dot, legacy, marker, proj, utilityNames, fail, config) ==
  IF config = NoConfig
  THEN [proj |-> proj,
        out |-> [removeReport(utilityNames, config, fail) EXCEPT !.outcome = "not_initialized"]]
  ELSE removeValidated(reg, dot, legacy, marker, proj, fail, config,
                       removeReport(utilityNames, config, fail),
                       validateRemovalTargets(reg, dot, legacy, marker, proj.dirs, proj.files,
                                              utilityNames,
                                              [valid |-> <<>>, invalid |-> <<>>,
                                               notInstalled |-> <<>>]))

\* what remove(utilityNames) does to the project, and what it reports
removeOutcome(reg, dot, legacy, marker, proj, utilityNames, fail) ==
  removeConfigured(reg, dot, legacy, marker, proj, utilityNames, fail,
                   removeGetProjectConfig(dot, proj.dirs))

Remove(utilityNames, fail) ==
  \E r \in {removeOutcome(registry, dotConfig, legacyConfig, tsMarker,
                          [files |-> files, dirs |-> dirs], utilityNames, fail)} :
     /\ files' = r.proj.files
     /\ dirs' = r.proj.dirs
     /\ last' = r.out
     /\ UNCHANGED <<registry, sources, dotConfig, legacyConfig, initFile, tsMarker>>

----------------------------------------------------------------------------
(* init *)

\* the index file and the README of the install directory
indexPath(config) ==
  [dir |-> config.directory, stem |-> "index", ext |-> IF config.typescript THEN "ts" ELSE "js"]

readmePath(config) == [dir |-> config.directory, stem |-> "README", ext |-> "md"]

\* the config init records: options.typescript || false, options.directory || 'lib/utils'
initConfig(options) ==
  [typescript |-> options.typescript,
   directory |-> IF options.directory = Absent THEN DefaultDir ELSE options.directory]

\* init after the config was built: ensureDir, writeJson, the two writeFile
initWritten(proj, config) ==
  [initFile |-> config,
   proj |-> [files |-> [proj.files EXCEPT
                          ![indexPath(config)] =
                             [of |-> "index", typed |-> config.typescript, by |-> "init"],
                          ![readmePath(config)] =
                             [of |-> "README", typed |-> FALSE, by |-> "init"]],
             dirs |-> proj.dirs \cup {config.directory}],
   out |-> [cmd |-> "init", outcome |-> "done", config |-> config, exitCode |-> 0]]

\* what init(options) does to the project, and what it reports
initOutcome(initF, proj, options) ==
  IF initF # NoFile
  THEN [initFile |-> initF, proj |-> proj,
        out |-> [cmd |-> "init", outcome |-> "already", config |-> initF, exitCode |-> 0]]
  ELSE initWritten(proj, initConfig(options))

init(options) ==
  \E r \in {initOutcome(initFile, [files |-> files, dirs |-> dirs], options)} :
     /\ initFile' = r.initFile
     /\ files' = r.proj.files
     /\ dirs' = r.proj.dirs
     /\ last' = r.out
     /\ UNCHANGED <<registry, sources, dotConfig, legacyConfig, tsMarker>>

----------------------------------------------------------------------------
(* search *)

\* searchUtilities(registry, query, options), and what it returned
Search(query, options) ==
  /\ last' = [cmd |-> "search", query |-> query, options |-> options,
              results |-> searchUtilities(registry, query, options)]
  /\ UNCHANGED <<registry, sources, dotConfig, legacyConfig, initFile, tsMarker, dirs, files>>

----------------------------------------------------------------------------
(* Registry integrity validation *)

\* a cycle check that looks at the utility's own name only
selfDependencyOnly(reg, utilityName) ==
  [visited |-> {utilityName}, visiting |-> {},
   dependencies |-> findUtility(reg, utilityName).dependencies,
   circularDependencies |->
     SelectSeq(findUtility(reg, utilityName).dependencies, LAMBDA dep : dep = utilityName)]

\* getDependencies(registry, utilityName): its inner collectDependencies(name);
\* st carries visited, visiting, dependencies and circularDependencies
RECURSIVE getDependenciesVisit(_, _, _)
RECURSIVE getDependenciesEach(_, _, _)

getDependenciesVisit(reg, name, st) ==
  IF name \in st.visiting
  THEN [st EXCEPT !.circularDependencies = Append(@, name)]
  ELSE IF name \in st.visited THEN st
  ELSE [getDependenciesEach(reg,
                            IF findUtility(reg, name) = NoUtility THEN <<>>
                            ELSE findUtility(reg, name).dependencies,
                            [st EXCEPT !.visiting = @ \cup {name}])
          EXCEPT !.visiting = @ \ {name}, !.visited = @ \cup {name}]

\* util.dependencies.forEach(dep => { dependencies.add(dep); collectDependencies(dep) })
getDependenciesEach(reg, deps, st) ==
  IF deps = <<>> THEN st
  ELSE getDependenciesEach(reg, Tail(deps),
         getDependenciesVisit(reg, Head(deps),
                              [st EXCEPT !.dependencies = SetAdd(@, Head(deps))]))

getDependencies(reg, utilityName) ==
  getDependenciesVisit(reg, utilityName,
                       [visited |-> {}, visiting |-> {}, dependencies |-> <<>>,
                        circularDependencies |-> <<>>])

\* the errors validateDependencies pushes for one utility
dependencyErrors(reg, utility, depInfo) ==
  [i \in 1..Len(SelectSeq(utility.dependencies, LAMBDA dep : dep \notin Range(mapName(reg.utilities)))) |->
     [kind |-> "non-existent utility", name |-> utility.name]]
    \o (IF Len(depInfo.circularDependencies) > 0
        THEN <<[kind |-> "circular dependency", name |-> utility.name]>>
        ELSE <<>>)

\* validateDependencies(registry).errors
RECURSIVE validateDependencies(_, _, _)
validateDependencies(reg, utilities, errors) ==
  IF utilities = <<>> THEN errors
  ELSE validateDependencies(reg, Tail(utilities),
         errors \o dependencyErrors(reg, Head(utilities),
                                    getDependencies(reg, Head(utilities).name)))

\* utilityNames.filter((name, index) => utilityNames.indexOf(name) !== index)
duplicates(utilityNames) ==
  SelectSeq([i \in 1..Len(utilityNames) |->
               IF \E j \in 1..(i - 1) : utilityNames[j] = utilityNames[i]
               THEN utilityNames[i] ELSE Absent],
            LAMBDA name : name # Absent)

\* the errors of validateRegistry in the order they are pushed
registryErrors(reg) ==
  (IF reg.version = Absent THEN <<[kind |-> "missing version", name |-> Absent]>> ELSE <<>>)
    \o [i \in 1..Len(SelectSeq(reg.utilities,
                               LAMBDA utility : utility.category \notin Range(reg.categories))) |->
          [kind |-> "non-existent category",
           name |-> SelectSeq(reg.utilities,
                              LAMBDA utility : utility.category \notin Range(reg.categories))[i].name]]
    \o (IF Len(duplicates(mapName(reg.utilities))) > 0
        THEN <<[kind |-> "duplicate names", name |-> Absent]>>
        ELSE <<>>)
    \o validateDependencies(reg, reg.utilities, <<>>)

\* the warnings of validateRegistry
registryWarnings(reg) ==
  mapName(SelectSeq(reg.utilities,
                    LAMBDA utility : /\ Len(utility.dependencies) = 0
                                     /\ \A i \in 1..Len(reg.utilities) :
                                          utility.name \notin Range(reg.utilities[i].dependencies)))
    \o mapName(SelectSeq(reg.utilities, LAMBDA utility : utility.file.ext \notin {"ts", "js"}))

\* validateRegistry(): a registry whose categories are not an array makes
\* registry.categories.map throw, which the catch turns into a result
validateRegistry(reg) ==
  IF reg.categories = Absent
  THEN [valid |-> FALSE, errors |-> <<[kind |-> "failed to load", name |-> Absent]>>,
        warnings |-> <<>>]
  ELSE [valid |-> Len(registryErrors(reg)) = 0, errors |-> registryErrors(reg),
        warnings |-> registryWarnings(reg)]

Validate ==
  /\ last' = [cmd |-> "validate", result |-> validateRegistry(registry)]
  /\ UNCHANGED <<registry, sources, dotConfig, legacyConfig, initFile, tsMarker, dirs, files>>

----------------------------------------------------------------------------
(* The user edits an installed file: installed utilities are the project's *)
(* own code                                                                *)

EditedContent(c) == [of |-> c.of, typed |-> c.typed, by |-> "user"]

EditFile(p) ==
  /\ files[p] # NoFile
  /\ files[p].by # "user"
  /\ files' = [files EXCEPT ![p] = EditedContent(@)]
  /\ last' = [cmd |-> "edit"]
  /\ UNCHANGED <<registry, sources, dotConfig, legacyConfig, initFile, tsMarker, dirs>>

----------------------------------------------------------------------------
(* The registries, packages and command lines the model draws from *)

UtilityNames == <<"A", "B", "C">>
DanglingName == "Z"
CategoryTags == <<"dom", "file">>

Description(name) == CASE name = "A" -> "bq" [] name = "B" -> "bc" [] OTHER -> name

\* the utilities whose file is filed under the directory of its category
\* ("<category>/<name>.<ext>"); the file of the others is "<name>.<ext>"
Nested == {"A", "C"}

mkUtility(name, category, ext, deps) ==
  [name |-> name, category |-> category,
   file |-> [sub |-> IF name \in Nested THEN category ELSE Absent, stem |-> name, ext |-> ext],
   description |-> Description(name), dependencies |-> deps]

mkRegistry(cats, exts, deps) ==
  [categories |-> CategoryTags,
   utilities |-> [i \in 1..Len(UtilityNames) |->
                    mkUtility(UtilityNames[i], cats[i], exts[i], deps[i])]]

\* dependency lists: distinct names, dangling names included
DepLists ==
  {s \in UNION {[1..n -> Range(UtilityNames) \cup {DanglingName}] : n \in 0..MaxEdges} :
     \A i, j \in 1..Len(s) : s[i] = s[j] => i = j}

DepAssignments ==
  {d \in [1..Len(UtilityNames) -> DepLists] : Len(d[1]) + Len(d[2]) + Len(d[3]) <= MaxEdges}

\* the utilities split over the two tags
SplitCategories == <<"dom", "dom", "file">>

\* "A" filed under a category that is named like the utility "C"
CollidingCategories == <<"C", "dom", "dom">>

AllTyped == [i \in 1..Len(UtilityNames) |-> "ts"]

\* every dependency graph under the split categories; under the colliding
\* categories the graphs of at most one edge
ResolveRegistries ==
  {mkRegistry(SplitCategories, AllTyped, d) : d \in DepAssignments}
    \cup {mkRegistry(CollidingCategories, AllTyped, d) :
            d \in {e \in DepAssignments : Len(e[1]) + Len(e[2]) + Len(e[3]) <= 1}}

\* command lines of utility names and a category tag
RequestNames == Range(UtilityNames) \cup {"dom"}
Requests == UNION {[1..n -> RequestNames] : n \in 0..MaxReq}

\* the install directories and their category subdirectories
AllDirs == Dirs \cup {d \o "/" \o c : d \in Dirs, c \in SubdirNames}

Paths == [dir : AllDirs, stem : Range(UtilityNames) \cup {DanglingName}, ext : {"ts", "js"}]

\* a package that ships every utility, typed, in the templates directory
\* the files init writes into the install directory
InitPaths ==
  [dir : Dirs, stem : {"index"}, ext : {"ts", "js"}]
    \cup [dir : Dirs, stem : {"README"}, ext : {"md"}]

\* every path of the project the model follows
ProjectPaths == Paths \cup InitPaths

FullPackage ==
  [p \in Range(Providers) \cup {"utilityContent"} |->
     [n \in Range(UtilityNames) |->
        IF p = "registry/templates" THEN [of |-> n, typed |-> TRUE] ELSE NoFile]]

NoCommand == [cmd |-> "none"]

----------------------------------------------------------------------------
(* SpecResolve: one add command on an initialized, empty project, over     *)
(* every drawn registry and command line                                   *)

InitResolve ==
  /\ registry \in ResolveRegistries
  /\ sources = FullPackage
  /\ dotConfig = NoFile
  /\ legacyConfig = NoFile
  /\ initFile = NoFile
  /\ tsMarker = TRUE
  /\ dirs = {DefaultDir}
  /\ files = [p \in ProjectPaths |-> NoFile]
  /\ last = NoCommand

AddOnce ==
  /\ last.cmd = "none"
  /\ \E utilityNames \in Requests, noDeps \in BOOLEAN :
       Add(utilityNames, [overwrite |-> FALSE, noDeps |-> noDeps], NoFail)

NextResolve == AddOnce

SpecResolve == InitResolve /\ [][NextResolve]_vars

----------------------------------------------------------------------------
(* Spec: the commands of the CLI (add, remove) and user edits, in any      *)
(* order, on every drawn project                                           *)

\* the registry of the spec's scenario: A, B depends on A, C depends on B
ChainRegistry ==
  mkRegistry(<<"dom", "dom", "file">>, <<"ts", "js", "ts">>, <<<<>>, <<"A">>, <<"B">>>>)

\* a package whose A is an untyped file of the flat directory, whose C is a
\* typed template and whose B is missing from every directory and held by
\* the generated content map only
PartialPackage ==
  [p \in Range(Providers) \cup {"utilityContent"} |->
     [n \in Range(UtilityNames) |->
        IF p = "utilityContent" /\ n = "B" THEN [of |-> n, typed |-> TRUE]
        ELSE IF p = "utils" /\ n = "A" THEN [of |-> n, typed |-> FALSE]
        ELSE IF p = "registry/templates" /\ n = "C" THEN [of |-> n, typed |-> TRUE]
        ELSE NoFile]]

\* a file an earlier installation left in the custom directory
LeftoverFile == [dir |-> CustomDir \o "/dom", stem |-> "A", ext |-> "ts"]
LeftoverContent(f) == [of |-> f.stem, typed |-> f.ext = "ts", by |-> "copy"]

\* a file of the project's own in a category directory, and the file of "B"
\* from a package that still shipped it
OwnFile == [dir |-> DefaultDir \o "/dom", stem |-> "Z", ext |-> "ts"]
InstalledB == [dir |-> CustomDir, stem |-> "B", ext |-> "js"]

\* the projects a command can be started in: every signal of the config
\* locator alone, typed and untyped, two signals at once, and no signal at
\* all (with and without files left from an earlier installation)
Projects ==
  { [dot |-> [typescript |-> TRUE, directory |-> Absent], legacy |-> NoFile,
     marker |-> FALSE, dirs |-> {}, kept |-> {}],
    [dot |-> [typescript |-> FALSE, directory |-> CustomDir], legacy |-> NoFile,
     marker |-> TRUE, dirs |-> {DefaultDir, CustomDir}, kept |-> {InstalledB}],
    [dot |-> [typescript |-> TRUE, directory |-> Absent], legacy |-> NoFile,
     marker |-> FALSE, dirs |-> {DefaultDir, OwnFile.dir}, kept |-> {OwnFile}],
    [dot |-> NoFile, legacy |-> [utilsPath |-> Absent], marker |-> FALSE, dirs |-> {},
     kept |-> {}],
    [dot |-> NoFile, legacy |-> [utilsPath |-> CustomDir], marker |-> FALSE,
     dirs |-> {DefaultDir}, kept |-> {}],
    [dot |-> NoFile, legacy |-> NoFile, marker |-> TRUE, dirs |-> {DefaultDir}, kept |-> {}],
    [dot |-> NoFile, legacy |-> NoFile, marker |-> FALSE, dirs |-> {DefaultDir}, kept |-> {}],
    [dot |-> NoFile, legacy |-> NoFile, marker |-> TRUE, dirs |-> {}, kept |-> {}],
    [dot |-> NoFile, legacy |-> NoFile, marker |-> FALSE,
     dirs |-> {CustomDir, LeftoverFile.dir}, kept |-> {LeftoverFile}],
    [dot |-> [typescript |-> TRUE, directory |-> Absent],
     legacy |-> [utilsPath |-> CustomDir], marker |-> FALSE, dirs |-> {DefaultDir},
     kept |-> {}] }

\* strictly increasing index sequences of length 1..k over 1..n
IncreasingSeqs(n, k) ==
  {s \in UNION {[1..m -> 1..n] : m \in 1..k} : \A i \in 1..(Len(s) - 1) : s[i] < s[i + 1]}

\* command lines that name each of the given names at most once, in order
\* (the CLI requires at least one name)
Selections(names, k) ==
  {[i \in 1..Len(s) |-> names[s[i]]] : s \in IncreasingSeqs(Len(names), k)}

AddRequests == Selections(<<"A", "C", "a">>, MaxReq)
RemoveRequests == Selections(<<"A", "B", "C", "a">>, MaxReq)

\* the add command of the CLI has the --overwrite flag only
AddOptions == [overwrite : BOOLEAN, noDeps : {FALSE}]
AddFails == {NoFail, [name |-> "A", at |-> "ensureDir"], [name |-> "A", at |-> "writeFile"]}
RemoveFails == {NoFail, [name |-> "A", at |-> "remove"], [name |-> Absent, at |-> "scan"]}

Init ==
  /\ registry = ChainRegistry
  /\ sources = PartialPackage
  /\ \E p \in Projects :
       /\ dotConfig = p.dot
       /\ legacyConfig = p.legacy
       /\ tsMarker = p.marker
       /\ dirs = p.dirs
       /\ files = [f \in ProjectPaths |-> IF f \in p.kept THEN LeftoverContent(f) ELSE NoFile]
  /\ initFile = NoFile
  /\ last = NoCommand

AddAny == \E utilityNames \in AddRequests, options \in AddOptions, fail \in AddFails :
            Add(utilityNames, options, fail)

RemoveAny == \E utilityNames \in RemoveRequests, fail \in RemoveFails :
               Remove(utilityNames, fail)

EditAny == \E p \in Paths : EditFile(p)

Next == AddAny \/ RemoveAny \/ EditAny

Spec == Init /\ [][Next]_vars

----------------------------------------------------------------------------
(* SpecInit: init, add, remove and user edits, in any order, on a project  *)
(* that has no config file and no install directory yet                    *)

\* -t, --typescript and -d, --directory <dir> (default 'lib/utils')
InitOptions == [typescript : BOOLEAN, directory : {DefaultDir, CustomDir}]

InitFresh ==
  /\ registry = ChainRegistry
  /\ sources = PartialPackage
  /\ dotConfig = NoFile
  /\ legacyConfig = NoFile
  /\ initFile = NoFile
  /\ tsMarker \in BOOLEAN
  /\ dirs = {}
  /\ files = [p \in ProjectPaths |-> NoFile]
  /\ last = NoCommand

InitAny == \E options \in InitOptions : init(options)

NextInit == InitAny \/ AddAny \/ RemoveAny \/ EditAny

SpecInit == InitFresh /\ [][NextInit]_vars

----------------------------------------------------------------------------
(* SpecSearch: searchUtilities on every drawn registry, query and options  *)

MaxUtilities == 3  \* number of utilities in a registry drawn for a search
MaxLimit == 2      \* the largest limit of a search

\* utilities whose names and descriptions meet the queries as an exact
\* name, as the start of a name, inside a name and inside a description
SearchPool ==
  { mkUtility("b", "dom", "ts", <<>>), mkUtility("Ba", "file", "ts", <<>>),
    mkUtility("ab", "dom", "ts", <<>>), mkUtility("cab", "dom", "ts", <<>>),
    mkUtility("A", "file", "ts", <<>>) }

\* the utilities of the pool in every order
SearchRegistries ==
  {[categories |-> CategoryTags, utilities |-> us] :
     us \in {s \in UNION {[1..n -> SearchPool] : n \in 1..MaxUtilities} :
               \A i, j \in 1..Len(s) : s[i] = s[j] => i = j}}

Queries == {"b", "B", "a", "ab", "q"}

\* a limit of 0 is an undefined limit
SearchOptions == [limit : 0..MaxLimit, category : {Absent, "dom"}, includeDescription : BOOLEAN]

InitSearch ==
  /\ registry \in SearchRegistries
  /\ sources = FullPackage
  /\ dotConfig = NoFile
  /\ legacyConfig = NoFile
  /\ initFile = NoFile
  /\ tsMarker = FALSE
  /\ dirs = {}
  /\ files = [p \in ProjectPaths |-> NoFile]
  /\ last = NoCommand

SearchOnce ==
  /\ last.cmd = "none"
  /\ \E query \in Queries, options \in SearchOptions : Search(query, options)

NextSearch == SearchOnce

SpecSearch == InitSearch /\ [][NextSearch]_vars

----------------------------------------------------------------------------
(* SpecValidate: validateRegistry on every drawn registry file             *)

MaxEntries == 3    \* number of utility entries in a registry drawn for validation

\* an entry of a registry file: a name that may repeat, a category that may
\* be unknown, at most one dependency that may dangle
RegistryEntries ==
  {mkUtility(n, c, "ts", d) :
     n \in {"A", "B"}, c \in {"dom", "C"}, d \in {<<>>, <<"A">>, <<"B">>, <<DanglingName>>}}

\* registry files with and without a version, and one whose categories are
\* not an array
ValidateRegistries ==
  {[version |-> v, categories |-> IF v = "no categories" THEN Absent ELSE CategoryTags,
    utilities |-> us] :
     v \in {"1.0.0", Absent, "no categories"},
     us \in UNION {[1..n -> RegistryEntries] : n \in 1..MaxEntries}}

InitValidate ==
  /\ registry \in ValidateRegistries
  /\ sources = FullPackage
  /\ dotConfig = NoFile
  /\ legacyConfig = NoFile
  /\ initFile = NoFile
  /\ tsMarker = FALSE
  /\ dirs = {}
  /\ files = [p \in ProjectPaths |-> NoFile]
  /\ last = NoCommand

ValidateOnce == last.cmd = "none" /\ Validate

NextValidate == ValidateOnce

SpecValidate == InitValidate /\ [][NextValidate]_vars

----------------------------------------------------------------------------
(* SpecAnnotate: addBasicTypeAnnotations on every drawn untyped source     *)

MaxLen == 4    \* number of characters of a drawn source

\* characters of sources without type syntax: none of the patterns of
\* isTypeScriptContent matches a text over them
SourceChars == {"x", "1", "=", ";", ","}

SourceTexts == UNION {[1..n -> SourceChars] : n \in 1..MaxLen}

InitAnnotate ==
  /\ registry = ChainRegistry
  /\ sources = FullPackage
  /\ dotConfig = [typescript |-> TRUE, directory |-> Absent]
  /\ legacyConfig = NoFile
  /\ initFile = NoFile
  /\ tsMarker = FALSE
  /\ dirs = {}
  /\ files = [p \in ProjectPaths |-> NoFile]
  /\ last \in {[cmd |-> "source", content |-> t] : t \in SourceTexts}

NextAnnotate == Annotate

SpecAnnotate == InitAnnotate /\ [][NextAnnotate]_vars

----------------------------------------------------------------------------
(* SpecDataURI: dataURItoFile on every drawn string                        *)

MaxURI == 5    \* number of characters of a drawn data URI

\* two characters of the base64 alphabet and the three separators
URIChars == {"d", "t", ":", ";", ","}

DataURIs == UNION {[1..n -> URIChars] : n \in 0..MaxURI}

InitDataURI ==
  /\ registry = ChainRegistry
  /\ sources = FullPackage
  /\ dotConfig = NoFile
  /\ legacyConfig = NoFile
  /\ initFile = NoFile
  /\ tsMarker = FALSE
  /\ dirs = {}
  /\ files = [p \in ProjectPaths |-> NoFile]
  /\ last \in {[cmd |-> "call", dataURI |-> t, filename |-> f] :
                 t \in DataURIs, f \in {"test.txt", "a"}}

NextDataURI == DataURItoFile

SpecDataURI == InitDataURI /\ [][NextDataURI]_vars

----------------------------------------------------------------------------
(* SpecTies: one resolveDependencies call over registries of four          *)
(* utilities                                                               *)

MaxDeps == 2    \* number of dependencies of one utility in SpecTies

TieNames == <<"A", "B", "C", "Q">>

\* dependency lists of distinct names
TieLists ==
  {s \in UNION {[1..n -> Range(TieNames)] : n \in 0..MaxDeps} :
     \A i, j \in 1..Len(s) : s[i] = s[j] => i = j}

\* every graph of at most MaxEdges edges on the four utilities
TieRegistries ==
  {[categories |-> CategoryTags,
    utilities |-> [i \in 1..Len(TieNames) |-> mkUtility(TieNames[i], "dom", "ts", d[i])]] :
     d \in {e \in [1..Len(TieNames) -> TieLists] :
              Len(e[1]) + Len(e[2]) + Len(e[3]) + Len(e[4]) <= MaxEdges}}

TieRequests == UNION {[1..n -> Range(TieNames)] : n \in 1..MaxReq}

InitTies ==
  /\ registry \in TieRegistries
  /\ sources = FullPackage
  /\ dotConfig = NoFile
  /\ legacyConfig = NoFile
  /\ initFile = NoFile
  /\ tsMarker = TRUE
  /\ dirs = {DefaultDir}
  /\ files = [p \in ProjectPaths |-> NoFile]
  /\ last = NoCommand

ResolveOnce ==
  /\ last.cmd = "none"
  /\ \E utilityNames \in TieRequests, noDeps \in BOOLEAN : Resolve(utilityNames, noDeps)

NextTies == ResolveOnce

SpecTies == InitTies /\ [][NextTies]_vars

----------------------------------------------------------------------------
(* SpecDeps: add with dependencies and remove, without I/O errors, on an   *)
(* initialized project with an empty install directory and a package that  *)
(* ships every utility                                                     *)

InitDeps ==
  /\ registry = ChainRegistry
  /\ sources = FullPackage
  /\ dotConfig \in {[typescript |-> t, directory |-> Absent] : t \in BOOLEAN}
  /\ legacyConfig = NoFile
  /\ initFile = NoFile
  /\ tsMarker = FALSE
  /\ dirs = {}
  /\ files = [p \in ProjectPaths |-> NoFile]
  /\ last = NoCommand

AddWithDeps ==
  \E utilityNames \in AddRequests, overwrite \in BOOLEAN :
    Add(utilityNames, [overwrite |-> overwrite, noDeps |-> FALSE], NoFail)

RemoveInstalled == \E utilityNames \in RemoveRequests : Remove(utilityNames, NoFail)

NextDeps == AddWithDeps \/ RemoveInstalled

SpecDeps == InitDeps /\ [][NextDeps]_vars

----------------------------------------------------------------------------
(* The dependency graph of a registry, for stating the properties below    *)

RegistryNames(reg) == Range(mapName(reg.utilities))

\* the names a utility lists as its dependencies
DepsOf(reg, n) ==
  IF findUtility(reg, n) = NoUtility THEN {} ELSE Range(findUtility(reg, n).dependencies)

\* the names of S and everything reachable from them over dependency edges
RECURSIVE Closure(_, _)
Closure(reg, S) ==
  IF UNION {DepsOf(reg, n) : n \in S} \subseteq S THEN S
  ELSE Closure(reg, S \cup UNION {DepsOf(reg, n) : n \in S})

\* what n reaches over at least one edge
Reachable(reg, n) == Closure(reg, DepsOf(reg, n))

OnCycle(reg, n) == n \in Reachable(reg, n)

Acyclic(reg) == \A n \in RegistryNames(reg) : ~OnCycle(reg, n)

ReachesCycle(reg, n) == \E m \in Closure(reg, {n}) : OnCycle(reg, m)

NoDangling(reg) == \A n \in RegistryNames(reg) : DepsOf(reg, n) \subseteq RegistryNames(reg)

\* the project of SpecResolve before the command
NothingWritten == dirs = {DefaultDir} /\ \A p \in Paths : files[p] = NoFile

\* the add command resolved its names: none was unknown, the project is initialized
Resolving == last.cmd = "add" /\ last.invalid = <<>> /\ last.outcome # "not_initialized"

----------------------------------------------------------------------------
(* Properties of the Dependency Resolver, under SpecResolve                *)

\* C1: for every acyclic registry and every request, the install order
\* places each dependency strictly before each utility that depends on it:
\* for every edge with both ends in the order, index(dependency) <
\* index(dependent).
C1_DependenciesFirst ==
  (Resolving /\ last.outcome = "done" /\ Acyclic(registry)) =>
    \A i, j \in 1..Len(last.toInstall) :
      last.toInstall[j] \in DepsOf(registry, last.toInstall[i]) => j < i

\* a chain of three utilities ordered from only the direct dependencies
C1_Witness ==
  /\ Resolving /\ last.outcome = "done" /\ Acyclic(registry)
  /\ last.options.noDeps
  /\ Len(last.toInstall) = 3
  /\ last.toInstall[1] \in DepsOf(registry, last.toInstall[2])
  /\ last.toInstall[2] \in DepsOf(registry, last.toInstall[3])
  /\ last.valid[1] = last.toInstall[3]

\* resolution fails with a circular-dependency error naming a utility on a
\* cycle, returns no install order, and add writes nothing
CircularFailure ==
  /\ last.outcome = "error"
  /\ last.error.kind = "circular"
  /\ OnCycle(registry, last.error.name)
  /\ last.toInstall = <<>>
  /\ last.results = <<>>
  /\ NothingWritten

\* C2 as stated: whenever a requested utility can reach a dependency cycle,
\* resolution ends in the circular-dependency failure.
C2_AnyReachableCycleFails ==
  (Resolving /\ \E n \in Range(last.valid) : ReachesCycle(registry, n)) => CircularFailure

\* C2 (amended): with dependencies enabled and every name reachable from the
\* request present in the registry, whenever a requested utility can reach a
\* dependency cycle (a self-dependency included), resolution ends with a
\* circular-dependency error naming a utility on a cycle, no install order
\* is returned and add writes no file.
C2_ReachableCycleFails ==
  (/\ Resolving
   /\ ~last.options.noDeps
   /\ Closure(registry, Range(last.valid)) \subseteq RegistryNames(registry)
   /\ \E n \in Range(last.valid) : ReachesCycle(registry, n)) => CircularFailure

\* the error is raised for a request that is not itself on the cycle
C2_Witness ==
  /\ Resolving /\ ~last.options.noDeps /\ CircularFailure
  /\ Len(last.valid) = 1
  /\ ~OnCycle(registry, last.valid[1])
  /\ last.error.name # last.valid[1]

\* C3: for an acyclic registry without dangling dependency names the install
\* order has each name at most once, even when requested names repeat, and
\* its names are exactly the requested names plus everything reachable from
\* them (dependencies enabled) or plus only their direct dependencies
\* (noDeps).
C3_OrderIsTheClosure ==
  (Resolving /\ Acyclic(registry) /\ NoDangling(registry)) =>
    /\ last.outcome = "done"
    /\ \A i, j \in 1..Len(last.toInstall) : last.toInstall[i] = last.toInstall[j] => i = j
    /\ Range(last.toInstall) =
         IF last.options.noDeps
         THEN Range(last.valid) \cup UNION {DepsOf(registry, n) : n \in Range(last.valid)}
         ELSE Closure(registry, Range(last.valid))

\* a name requested twice under noDeps, with a dependency left out
C3_Witness ==
  /\ Resolving /\ Acyclic(registry) /\ NoDangling(registry)
  /\ last.options.noDeps
  /\ Len(last.valid) = 2 /\ last.valid[1] = last.valid[2]
  /\ Len(last.toInstall) = 2
  /\ Range(last.toInstall) # Closure(registry, Range(last.valid))

\* the utilities of a category, in registry order
MembersOf(reg, c) ==
  LET at == {i \in 1..Len(reg.utilities) : reg.utilities[i].category = c}
      nth(k) == CHOOSE i \in at : Cardinality({j \in at : j < i}) = k - 1
  IN [k \in 1..Cardinality(at) |-> reg.utilities[nth(k)].name]

\* what add reports for the explicit list of the members of category c in
\* the project of SpecResolve
ExplicitRequest(c) ==
  addOutcome(registry, sources, dotConfig, legacyConfig, tsMarker,
             [files |-> [p \in Paths |-> NoFile], dirs |-> {DefaultDir}],
             MembersOf(registry, c), last.options, NoFail).out

\* C9: requesting a single category name expands to the utilities of the
\* category in registry order and yields the same install order as
\* requesting the explicit list of those utility names.
C9_CategoryLikeItsMembers ==
  \A c \in Range(utilityCategories(registry)) :
    (last.cmd = "add" /\ last.names = <<c>>) =>
      /\ last.expanded = MembersOf(registry, c)
      /\ last.outcome = ExplicitRequest(c).outcome
      /\ last.toInstall = ExplicitRequest(c).toInstall

\* C10: every result of add is marked isDependency exactly when its utility
\* is not among the requested (category-expanded) names, whatever its
\* position; with A (no dependencies), B depending on A and C depending on
\* B, requesting C installs A, B, C in this order with A and B marked as
\* dependencies and C as primary.
C10_DependencyMarks ==
  /\ (last.cmd = "add" /\ last.outcome = "done") =>
       /\ Len(last.results) = Len(last.toInstall)
       /\ \A i \in 1..Len(last.results) :
            /\ last.results[i].utility = last.toInstall[i]
            /\ last.results[i].isDependency <=> last.toInstall[i] \notin Range(last.expanded)
  /\ (/\ last.cmd = "add" /\ last.expanded = <<"C">> /\ ~last.options.noDeps
      /\ mapName(registry.utilities) = <<"A", "B", "C">>
      /\ registry.utilities[1].dependencies = <<>>
      /\ registry.utilities[2].dependencies = <<"A">>
      /\ registry.utilities[3].dependencies = <<"B">>) =>
       /\ last.outcome = "done"
       /\ last.toInstall = <<"A", "B", "C">>
       /\ Len(last.results) = 3
       /\ [i \in 1..3 |-> last.results[i].isDependency] = <<TRUE, TRUE, FALSE>>

\* the scenario, and a primary utility that is installed before another
\* primary one depends on it
C10_Witness ==
  /\ last.cmd = "add" /\ last.outcome = "done"
  /\ last.names = <<"C", "A">>
  /\ last.toInstall = <<"A", "B", "C">>
  /\ Len(last.results) = 3
  /\ [i \in 1..3 |-> last.results[i].isDependency] = <<FALSE, TRUE, FALSE>>

----------------------------------------------------------------------------
(* Properties of add and remove, under Spec                                *)

\* the file installUtility writes for the named utility under a config
TargetOf(config, utilityName) ==
  targetPath(config, installFileName(findUtility(registry, utilityName), config.typescript))

\* C4: when a requested name (after category expansion) is not a utility of
\* the registry, add installs nothing, not even the valid names of the same
\* request, and it suggests something whenever the name of a registry
\* utility contains the unknown name as a case-insensitive substring.
C4_UnknownNameInstallsNothing ==
  [][(last'.cmd = "add" /\ \E n \in Range(last'.expanded) : n \notin RegistryNames(registry)) =>
       /\ files' = files
       /\ dirs' = dirs
       /\ last'.toInstall = <<>>
       /\ last'.results = <<>>
       /\ (\E n \in Range(last'.expanded) \ RegistryNames(registry),
              u \in RegistryNames(registry) :
                includes(toLowerCase(Chars(u)), toLowerCase(Chars(n))))
            => last'.suggestions # <<>>]_vars

\* a request with a valid and an unknown name, refused with a suggestion
\* while a file installed earlier stays as it is
C4_Witness ==
  /\ last.cmd = "add" /\ last.outcome = "invalid"
  /\ last.valid # <<>>
  /\ last.suggestions = <<"A">>
  /\ \E p \in Paths : files[p] # NoFile

\* C5: when the target file of a utility exists and overwrite is not set,
\* installUtility answers 'skipped' and leaves the content of the file, the
\* rest of the batch is still processed, and add replaces a file that
\* existed only when overwrite is set.
C5_SkipKeepsTheFile ==
  [][(last'.cmd = "add" /\ last'.outcome = "done") =>
       /\ Len(last'.results) = Len(last'.toInstall)
       /\ \A i \in 1..Len(last'.toInstall) :
            (files[TargetOf(last'.config, last'.toInstall[i])] # NoFile
               /\ ~last'.options.overwrite) =>
              /\ last'.results[i].status = "skipped"
              /\ files'[TargetOf(last'.config, last'.toInstall[i])]
                   = files[TargetOf(last'.config, last'.toInstall[i])]
       /\ \A p \in Paths :
            (files[p] # NoFile /\ files'[p] # files[p]) => last'.options.overwrite]_vars

\* a file edited by the user is skipped and a later utility of the same
\* batch is installed
C5_Witness ==
  /\ last.cmd = "add" /\ last.outcome = "done" /\ ~last.options.overwrite
  /\ \E i, j \in 1..Len(last.results) :
       /\ i < j
       /\ last.results[i].status = "skipped"
       /\ files[last.results[i].path].by = "user"
       /\ last.results[j].status = "installed"

\* C6: add yields exactly one result per name of the install order, in that
\* order; a utility whose source is not found or whose write fails is
\* 'failed' for that item only, and the utilities after it are attempted.
C6_OneResultPerName ==
  (last.cmd = "add" /\ last.outcome = "done") =>
    /\ Len(last.results) = Len(last.toInstall)
    /\ \A i \in 1..Len(last.results) :
         /\ last.results[i].utility = last.toInstall[i]
         /\ last.results[i].status \in {"installed", "overwritten", "skipped", "failed"}
         /\ last.results[i].status # "skipped" =>
              (last.results[i].status = "failed" <=>
                 \/ getUtilityContent(sources, findUtility(registry, last.toInstall[i])) = NoFile
                 \/ last.fail.name = last.toInstall[i])

\* the write of the first utility fails, the source of the second is
\* missing, the third is installed
C6_Witness ==
  /\ last.cmd = "add" /\ last.outcome = "done"
  /\ last.fail = [name |-> "A", at |-> "writeFile"]
  /\ Len(last.results) = 3
  /\ [i \in 1..3 |-> last.results[i].status] = <<"failed", "failed", "installed">>

\* C7: a successful write is 'installed' when the target file did not exist
\* before it, whether or not overwrite is set, and 'overwritten' only when
\* an existing file was replaced under overwrite.
C7_StatusTellsFirstWrite ==
  [][(last'.cmd = "add" /\ last'.outcome = "done") =>
       \A i \in 1..Len(last'.results) :
         /\ (last'.results[i].status \in {"installed", "overwritten"}
               /\ files[TargetOf(last'.config, last'.toInstall[i])] = NoFile)
              => last'.results[i].status = "installed"
         /\ last'.results[i].status = "overwritten"
              => /\ files[TargetOf(last'.config, last'.toInstall[i])] # NoFile
                 /\ last'.options.overwrite]_vars

\* C8: in every initialized project, after add installed a utility,
\* isUtilityInstalled is true for it, and after remove is then run for it,
\* isUtilityInstalled is false for it.
C8_InstallRemoveRoundTrip ==
  [][(last.cmd = "add" /\ last.outcome = "done"
        /\ last'.cmd = "remove" /\ last'.fail = NoFail) =>
       \A i \in 1..Len(last.results) :
         (last.results[i].status \in {"installed", "overwritten"}
            /\ last.results[i].utility \in Range(last'.names)) =>
           /\ isUtilityInstalled(registry, dotConfig, legacyConfig, tsMarker, dirs, files,
                                 last.results[i].utility)
           /\ ~isUtilityInstalled(registry, dotConfig, legacyConfig, tsMarker, dirs', files',
                                  last.results[i].utility)]_vars

----------------------------------------------------------------------------
(* Properties of the Project Config Locator, under Spec                    *)

\* the configured directory of a config file, or the default one
DirectoryOr(d) == IF d = Absent THEN DefaultDir ELSE d

\* C11: the config add works with is chosen by the first match of: the
\* new-format config file (its typescript and directory values), else the
\* legacy config file (its directory, typed mode always true), else the
\* existence of the default lib/utils directory (typed exactly when a
\* typed-project marker is present), else the project is not initialized; a
\* signal of lower precedence never overrides a higher one.
C11_ConfigPrecedence ==
  [][(last'.cmd = "add" /\ last'.invalid = <<>>) =>
       IF dotConfig # NoFile
       THEN /\ last'.config # NoConfig
            /\ last'.config.typescript = dotConfig.typescript
            /\ last'.config.directory = DirectoryOr(dotConfig.directory)
       ELSE IF legacyConfig # NoFile
       THEN /\ last'.config # NoConfig
            /\ last'.config.typescript = TRUE
            /\ last'.config.directory = DirectoryOr(legacyConfig.utilsPath)
       ELSE IF DefaultDir \in dirs
       THEN last'.config = [typescript |-> tsMarker, directory |-> DefaultDir]
       ELSE last'.config = NoConfig /\ last'.outcome = "not_initialized"]_vars

\* add installed under the new-format config while a legacy config naming
\* another directory and the default directory both exist
C11_Witness ==
  /\ last.cmd = "add" /\ last.outcome = "done"
  /\ dotConfig # NoFile /\ legacyConfig # NoFile /\ DefaultDir \in dirs
  /\ legacyConfig.utilsPath = CustomDir
  /\ last.config = [typescript |-> dotConfig.typescript, directory |-> DefaultDir]
  /\ \E i \in 1..Len(last.results) :
       last.results[i].status = "installed" /\ last.results[i].path.dir = DefaultDir \o "/dom"

\* no config file and no default install directory
NotInitialized == dotConfig = NoFile /\ legacyConfig = NoFile /\ DefaultDir \notin dirs

\* C12: when no config file and no default install directory exist, add and
\* remove stop without processing any item: no file or directory of the
\* project is created, written or deleted.
C12_NotInitializedTouchesNothing ==
  [][(NotInitialized /\ last'.cmd \in {"add", "remove"}) =>
       /\ files' = files
       /\ dirs' = dirs
       /\ last'.results = <<>>
       /\ last'.outcome \in {"not_initialized", "invalid"}
       /\ last'.cmd = "remove" => last'.outcome = "not_initialized"
       /\ (last'.cmd = "add" /\ last'.invalid = <<>>) => last'.outcome = "not_initialized"]_vars

\* remove was asked for a utility whose file an earlier installation left
\* behind, in a project that is not initialized
C12_Witness ==
  /\ NotInitialized
  /\ last.cmd = "remove" /\ last.outcome = "not_initialized"
  /\ last.names = <<"A">>
  /\ files[LeftoverFile] # NoFile

----------------------------------------------------------------------------
(* Properties of the error policy, under Spec                              *)

\* C13: whenever add or remove hits a fatal condition (project not
\* initialized, circular dependency, unknown name reaching the resolver),
\* the command stops before any item is processed and the process ends with
\* a non-zero exit code.
C13_FatalMeansNonZeroExit ==
  (last.cmd \in {"add", "remove"} /\ last.outcome \in {"not_initialized", "error"}) =>
    /\ last.results = <<>>
    /\ last.exitCode # 0

----------------------------------------------------------------------------
(* Properties of remove, under Spec                                        *)

\* the typed and the untyped file of a utility in the directory of a config
Variants(config, utilityName) ==
  {targetPath(config, [findUtility(registry, utilityName).file EXCEPT !.ext = e]) :
     e \in {"ts", "js"}}

\* the command reported this status for the named utility
Reported(report, utilityName, status) ==
  \E i \in 1..Len(report.results) :
    report.results[i].utility = utilityName /\ report.results[i].status = status

\* C14: remove locates the file of an installed utility under either
\* extension: when the typed or the untyped file exists, whatever the typed
\* mode of the config, it is deleted and the result is 'removed'; the
\* utility is 'not_installed' only when neither file exists.
C14_RemoveFindsEitherVariant ==
  [][(last'.cmd = "remove" /\ last'.outcome # "not_initialized" /\ last'.fail = NoFail) =>
       \A n \in Range(last'.names) \cap RegistryNames(registry) :
         IF \E p \in Variants(last'.config, n) : files[p] # NoFile
         THEN /\ \A p \in Variants(last'.config, n) : files'[p] = NoFile
              /\ Reported(last', n, "removed")
         ELSE /\ ~Reported(last', n, "removed")
              /\ n \in Range(last'.notInstalled) \/ Reported(last', n, "not_installed")]_vars

\* C15: in a remove request the names unknown to the registry and the names
\* not installed are reported and do not abort the command: every other
\* requested name, in the registry and installed, is removed, in the order
\* the names were requested.
C15_InstalledNamesAreRemoved ==
  [][(last'.cmd = "remove" /\ last'.outcome # "not_initialized" /\ last'.fail = NoFail) =>
       /\ last'.invalid = SelectSeq(last'.names, LAMBDA n : n \notin RegistryNames(registry))
       /\ last'.notInstalled =
            SelectSeq(last'.names,
                      LAMBDA n : /\ n \in RegistryNames(registry)
                                 /\ ~isUtilityInstalled(registry, dotConfig, legacyConfig,
                                                        tsMarker, dirs, files, n))
       /\ [i \in 1..Len(last'.results) |-> last'.results[i].utility] =
            SelectSeq(last'.names,
                      LAMBDA n : isUtilityInstalled(registry, dotConfig, legacyConfig,
                                                    tsMarker, dirs, files, n))
       /\ \A i \in 1..Len(last'.results) :
            /\ last'.results[i].status = "removed"
            /\ ~isUtilityInstalled(registry, dotConfig, legacyConfig, tsMarker, dirs', files',
                                   last'.results[i].utility)]_vars

\* the category directory remove looks at after deleting the file of a utility
CategoryDirOf(config, utilityName) == categoryDir(config, findUtility(registry, utilityName))

\* the utilities the command reported as removed
RemovedBy(report) ==
  {report.results[i].utility : i \in {j \in 1..Len(report.results) :
                                        report.results[j].status = "removed"}}

\* C16: after remove deleted the file of a utility, the category
\* subdirectory of the install directory is deleted exactly when it exists
\* and has become empty; a category directory that still holds another entry
\* stays in place with its contents unchanged.
C16_EmptyCategoryDirIsDeleted ==
  [][(last'.cmd = "remove" /\ last'.outcome = "done") =>
       /\ dirs' \subseteq dirs
       /\ dirs \ dirs' \subseteq {CategoryDirOf(last'.config, n) : n \in RemovedBy(last')}
       /\ \A n \in RemovedBy(last') :
            /\ CategoryDirOf(last'.config, n) \in dirs =>
                 (CategoryDirOf(last'.config, n) \notin dirs'
                    <=> \A p \in Paths : p.dir = CategoryDirOf(last'.config, n)
                                           => files'[p] = NoFile)
            /\ \A p \in Paths :
                 (p.dir = CategoryDirOf(last'.config, n) /\ files[p] # NoFile
                    /\ files'[p] # files[p])
                   => \E i \in 1..Len(last'.results) :
                        last'.results[i].status = "removed" /\ last'.results[i].path = p]_vars

\* one command removed "A", whose category directory still holds a file of
\* the project's own and stays, and "C", whose category directory is gone
C16_Witness ==
  /\ last.cmd = "remove" /\ last.outcome = "done"
  /\ RemovedBy(last) = {"A", "C"}
  /\ OwnFile.dir \in dirs /\ files[OwnFile] # NoFile
  /\ CategoryDirOf(last.config, "A") = OwnFile.dir
  /\ CategoryDirOf(last.config, "C") \notin dirs

\* the files the command reported as removed
RemovedPaths(report) ==
  {report.results[i].path : i \in {j \in 1..Len(report.results) :
                                     report.results[j].status = "removed"}}

\* C17: the orphan scan after removal is advisory only: it deletes and
\* writes no file, so the installed files after remove are those before
\* minus exactly the files of the utilities reported 'removed', and an error
\* inside the scan changes no removal result and does not fail the command.
C17_OrphanScanIsAdvisory ==
  [][(last'.cmd = "remove" /\ last'.outcome = "done") =>
       /\ \A p \in Paths :
            files'[p] = IF p \in RemovedPaths(last') THEN NoFile ELSE files[p]
       /\ \A p \in RemovedPaths(last') : files[p] # NoFile
       /\ last'.exitCode = 0
       /\ last'.fail.at = "scan" =>
            \E ref \in {removeOutcome(registry, dotConfig, legacyConfig, tsMarker,
                                      [files |-> files, dirs |-> dirs], last'.names, NoFail)} :
              /\ last'.results = ref.out.results
              /\ files' = ref.proj.files
              /\ dirs' = ref.proj.dirs]_vars

\* "C" was removed, the scan flagged "B", and the file of "B" is still there
C17_Witness ==
  /\ last.cmd = "remove" /\ last.outcome = "done"
  /\ RemovedBy(last) = {"C"}
  /\ last.orphans = <<"B">>
  /\ files[InstalledB] # NoFile

\* C18: every name the orphan scan flags is a currently installed utility
\* that no currently installed utility lists as a dependency; a utility that
\* is not installed is never flagged.
C18_OrphansAreInstalled ==
  (last.cmd = "remove" /\ last.outcome = "done") =>
    \A n \in Range(last.orphans) :
      /\ isUtilityInstalled(registry, dotConfig, legacyConfig, tsMarker, dirs, files, n)
      /\ \A m \in RegistryNames(registry) :
           isUtilityInstalled(registry, dotConfig, legacyConfig, tsMarker, dirs, files, m)
             => n \notin DepsOf(registry, m)

----------------------------------------------------------------------------
(* Properties of init, under SpecInit                                      *)

\* C19: after init completed with options (typescript, directory), a
\* following add or remove in the same project finds the project initialized
\* and works with exactly the typed mode and the install directory init
\* recorded, for every choice of the two options, a directory other than the
\* default one included.
C19_InitIsWhatAddFinds ==
  [][(/\ last.cmd = "init" /\ last.outcome = "done"
      /\ last'.cmd \in {"add", "remove"}
      /\ last'.cmd = "add" => last'.invalid = <<>>) =>
       /\ last'.outcome # "not_initialized"
       /\ last'.config = last.config]_vars

----------------------------------------------------------------------------
(* Properties of searchUtilities, under SpecSearch                         *)

\* s contains q, both taken without regard to case
ContainsIgnoringCase(s, q) == includes(toLowerCase(Chars(s)), toLowerCase(Chars(q)))

\* the utility passes the category filter and its name, or its description
\* when descriptions are searched, contains the query
IsMatch(u, query, options) ==
  /\ options.category = Absent \/ u.category = options.category
  /\ \/ ContainsIgnoringCase(u.name, query)
     \/ options.includeDescription /\ ContainsIgnoringCase(u.description, query)

\* 1 for an exact name match, 2 for a name that starts with the query, 3 for
\* the remaining matches
Tier(u, query) ==
  IF toLowerCase(Chars(u.name)) = toLowerCase(Chars(query)) THEN 1
  ELSE IF startsWith(toLowerCase(Chars(u.name)), toLowerCase(Chars(query))) THEN 2
  ELSE 3

\* u may stand before v in the results of the query
MayPrecede(u, v, query) ==
  \/ Tier(u, query) < Tier(v, query)
  \/ Tier(u, query) = Tier(v, query) /\ localeCompare(Chars(u.name), Chars(v.name)) <= 0

----------------------------------------------------------------------------
(* Properties of the registry integrity validation, under SpecValidate     *)

\* every utility's category exists in categories
CategoriesExist(reg) ==
  \A i \in 1..Len(reg.utilities) : reg.utilities[i].category \in Range(reg.categories)

\* no utility name is duplicated
NamesAreUnique(reg) ==
  \A i, j \in 1..Len(reg.utilities) : reg.utilities[i].name = reg.utilities[j].name => i = j

\* every dependency name of every entry resolves to a registry utility
DependenciesResolve(reg) ==
  \A i \in 1..Len(reg.utilities) :
    Range(reg.utilities[i].dependencies) \subseteq RegistryNames(reg)

\* no utility can reach a dependency cycle
NoReachableCycle(reg) == \A n \in RegistryNames(reg) : ~ReachesCycle(reg, n)

\* the result has an error entry of the kind
HasError(result, kind) == \E i \in 1..Len(result.errors) : result.errors[i].kind = kind

\* C21 as stated: the validation reports valid exactly when the four
\* conditions hold: categories exist, names are unique, dependency names
\* resolve, no utility reaches a cycle.
C21_ValidExactlyWhenFourHold ==
  last.cmd = "validate" =>
    (last.result.valid <=>
       /\ registry.categories # Absent
       /\ CategoriesExist(registry)
       /\ NamesAreUnique(registry)
       /\ DependenciesResolve(registry)
       /\ NoReachableCycle(registry))

\* C21 (amended): the validation never throws; for a registry file that has
\* a version field and whose categories are an array it reports valid exactly
\* when every utility's category exists in categories, no utility name is
\* duplicated, every dependency name resolves and no utility can reach a
\* dependency cycle, and each violated condition yields an error entry of
\* its kind; without a version field or an array of categories it reports
\* invalid with an error entry.
C21_IntegrityOfVersionedRegistry ==
  last.cmd = "validate" =>
    /\ last.result.valid <=> Len(last.result.errors) = 0
    /\ (registry.version = Absent \/ registry.categories = Absent) =>
         ~last.result.valid /\ Len(last.result.errors) > 0
    /\ (registry.version # Absent /\ registry.categories # Absent) =>
         /\ last.result.valid <=>
              /\ CategoriesExist(registry)
              /\ NamesAreUnique(registry)
              /\ DependenciesResolve(registry)
              /\ NoReachableCycle(registry)
         /\ ~CategoriesExist(registry) <=> HasError(last.result, "non-existent category")
         /\ ~NamesAreUnique(registry) <=> HasError(last.result, "duplicate names")
         /\ ~DependenciesResolve(registry) <=> HasError(last.result, "non-existent utility")
         /\ ~NoReachableCycle(registry) <=> HasError(last.result, "circular dependency")

\* a utility that is not on a cycle but reaches one is the only problem of a
\* versioned registry
C21_Witness ==
  /\ last.cmd = "validate" /\ ~last.result.valid
  /\ registry.version # Absent /\ registry.categories # Absent
  /\ CategoriesExist(registry) /\ NamesAreUnique(registry) /\ DependenciesResolve(registry)
  /\ \E n \in RegistryNames(registry) : ReachesCycle(registry, n) /\ ~OnCycle(registry, n)
  /\ Len(last.result.errors) = 2

----------------------------------------------------------------------------
(* Properties of a repeated install, under Spec                            *)

\* C22: once add has written a utility with overwrite set, installing the
\* same utility with overwrite set again, sources and config unchanged,
\* writes the target file again and leaves it with the content it had after
\* the first install.
C22_OverwriteTwiceSameContent ==
  (last.cmd = "add" /\ last.outcome = "done" /\ last.options.overwrite) =>
    \A i \in 1..Len(last.results) :
      last.results[i].status \in {"installed", "overwritten"} =>
        \E again \in {installUtility(sources, findUtility(registry, last.results[i].utility),
                                     last.config, last.options,
                                     [files |-> files, dirs |-> dirs], "none")} :
          /\ again.result.status = "overwritten"
          /\ again.result.path = last.results[i].path
          /\ again.proj.files = files

\* an untyped source written with overwrite set into a typed project that
\* also holds a file edited by the user
C22_Witness ==
  /\ last.cmd = "add" /\ last.outcome = "done" /\ last.options.overwrite
  /\ \E i \in 1..Len(last.results) :
       /\ last.results[i].status = "overwritten"
       /\ files[last.results[i].path].by = "addBasicTypeAnnotations"
  /\ \E p \in Paths : files[p] # NoFile /\ files[p].by = "user"

----------------------------------------------------------------------------
(* Properties of the source content providers, under Spec                  *)

\* the content the providers hold for a utility, the generated content map
\* first and then the directories in their order
ProvidedContent(utility) ==
  IF utilityContent(sources, utility.name) # NoFile
  THEN utilityContent(sources, utility.name)
  ELSE IF \E i \in 1..Len(Providers) : sources[Providers[i]][utility.name] # NoFile
  THEN sources[Providers[CHOOSE i \in 1..Len(Providers) :
                           /\ sources[Providers[i]][utility.name] # NoFile
                           /\ \A j \in 1..(i - 1) :
                                sources[Providers[j]][utility.name] = NoFile]][utility.name]
  ELSE NoFile

\* C23: the content installed for a utility comes from the first provider
\* that has it, the generated content map keyed by utility name first, then
\* the category-scoped directories, the flat directory and the templates
\* directory; 'source not found' is reported only when every provider lacks
\* the utility.
C23_FirstProviderWins ==
  (last.cmd = "add" /\ last.outcome = "done") =>
    \A i \in 1..Len(last.results) :
      (last.results[i].status # "skipped" /\ last.fail.name # last.results[i].utility) =>
        IF ProvidedContent(findUtility(registry, last.results[i].utility)) = NoFile
        THEN last.results[i].status = "failed"
        ELSE /\ last.results[i].status # "failed"
             /\ files[last.results[i].path]
                  = transformContent(ProvidedContent(findUtility(registry, last.results[i].utility)),
                                     last.config.typescript)

----------------------------------------------------------------------------
(* Properties of the placeholder type annotations, under SpecAnnotate      *)

\* the characters of a occur in b in the same order
RECURSIVE IsSubsequence(_, _)
IsSubsequence(a, b) ==
  IF a = <<>> THEN TRUE
  ELSE IF b = <<>> THEN FALSE
  ELSE IF Head(a) = Head(b) THEN IsSubsequence(Tail(a), Tail(b))
  ELSE IsSubsequence(a, Tail(b))

\* C24: the content written for an untyped source in a typed project keeps
\* the statements of the source: the annotations are added to the text, so
\* every character of the source is still there, in order, in the written
\* content.
C24_AnnotationsKeepStatements ==
  last.cmd = "annotate" => IsSubsequence(last.source, last.written)

----------------------------------------------------------------------------
(* Properties of dataURItoFile, under SpecDataURI                          *)

\* the positions of a character in a string
PositionsOf(content, char) == {i \in 1..Len(content) : content[i] = char}

\* the header and the payload of a string with one comma
HeaderOf(dataURI) == SubSeq(dataURI, 1, (CHOOSE i \in PositionsOf(dataURI, ",") : TRUE) - 1)
PayloadOf(dataURI) ==
  SubSeq(dataURI, (CHOOSE i \in PositionsOf(dataURI, ",") : TRUE) + 1, Len(dataURI))

\* the header has a ':' and a ';' after it, with mime between the first ':'
\* and the first ';' behind it
IsMimeOf(header, mime) ==
  \E c \in PositionsOf(header, ":"), s \in PositionsOf(header, ";") :
    /\ c < s
    /\ \A d \in PositionsOf(header, ":") : c <= d
    /\ \A t \in PositionsOf(header, ";") : c < t => s <= t
    /\ mime = SubSeq(header, c + 1, s - 1)

----------------------------------------------------------------------------
(* Properties of the installation order on disk, under Spec                *)

\* the positions of the install order that hold a dependency of the
\* utility at position i
DependencyPositions(i) ==
  {j \in 1..Len(last.toInstall) :
     last.toInstall[j] \in DepsOf(registry, last.toInstall[i])}

\* the result says that the file was written
IsWritten(result) == result.status \in {"installed", "overwritten"}

\* C26 as stated: when add writes the file of a utility, every dependency
\* of it that is in the install order has an earlier result that is
\* installed, overwritten or skipped.
C26_DependenciesExistAtWrite ==
  (last.cmd = "add" /\ last.outcome = "done") =>
    \A i \in 1..Len(last.results) :
      IsWritten(last.results[i]) =>
        \A j \in DependencyPositions(i) :
          j < i /\ last.results[j].status \in {"installed", "overwritten", "skipped"}

\* C26 (amended): when add writes the file of a utility, every dependency
\* of it that is in the install order has been processed before it, and its
\* file exists on disk when its result is installed, overwritten or skipped;
\* a dependency whose installation failed does not keep add from writing
\* the dependent.
C26_DependenciesProcessedFirst ==
  (last.cmd = "add" /\ last.outcome = "done") =>
    \A i \in 1..Len(last.results) :
      IsWritten(last.results[i]) =>
        /\ DepsOf(registry, last.toInstall[i]) \subseteq Range(last.toInstall)
        /\ \A j \in DependencyPositions(i) :
             /\ j < i
             /\ last.results[j].status # "failed" => files[last.results[j].path] # NoFile

\* the source of B is missing: B failed and C, which requires B, is written
C26_Witness ==
  /\ last.cmd = "add" /\ last.outcome = "done" /\ last.fail = NoFail
  /\ Len(last.results) = 3
  /\ [i \in 1..3 |-> last.results[i].utility] = <<"A", "B", "C">>
  /\ [i \in 1..3 |-> last.results[i].status] = <<"installed", "failed", "installed">>
  /\ files[last.results[3].path] # NoFile

----------------------------------------------------------------------------
(* Properties of the dependency map, under SpecResolve                     *)

\* C27: with dependencies enabled on an acyclic registry, the dependency
\* map records for each requested utility the set of all utilities
\* reachable from it over dependency edges, whatever the order of the
\* requested names and whatever they share.
C27_DependencyMapIsClosure ==
  (/\ last.cmd = "add" /\ last.outcome = "done"
   /\ ~last.options.noDeps /\ Acyclic(registry)) =>
    \A n \in Range(last.valid) :
      /\ n \in DOMAIN last.dependencyMap
      /\ Range(last.dependencyMap[n]) = Reachable(registry, n)

----------------------------------------------------------------------------
(* Properties of the order of unrelated utilities, under SpecTies          *)

\* the first position of a name in a sequence that holds it
FirstPosition(s, n) == CHOOSE i \in 1..Len(s) : s[i] = n /\ \A j \in 1..(i - 1) : s[j] # n

\* no dependency path from one to the other
Unrelated(reg, x, y) == x # y /\ x \notin Reachable(reg, y) /\ y \notin Reachable(reg, x)

\* C28: two names of the install order with no dependency path between
\* them in either direction are ordered as their first appearances in the
\* sequence handed to the topological sort, the collected dependencies
\* followed by the requested names.
C28_TiesKeepDiscoveryOrder ==
  (last.cmd = "resolve" /\ last.resolution.err = NoError) =>
    \A x, y \in Range(last.resolution.toInstall) :
      (/\ Unrelated(registry, x, y)
       /\ FirstPosition(last.handed, x) < FirstPosition(last.handed, y)) =>
        FirstPosition(last.resolution.toInstall, x) < FirstPosition(last.resolution.toInstall, y)

----------------------------------------------------------------------------
(* Properties of the two config locators, under Spec                       *)

\* C29: in every project state the config that remove resolves (whether the
\* project is initialized, the install directory, the typed mode) is the
\* config that add and isUtilityInstalled resolve, so that for every
\* utility remove looks at the file path that add writes.
C29_RemoveResolvesTheConfigOfAdd ==
  /\ removeGetProjectConfig(dotConfig, dirs)
       = getProjectConfig(dotConfig, legacyConfig, tsMarker, dirs)
  /\ getProjectConfig(dotConfig, legacyConfig, tsMarker, dirs) # NoConfig =>
       \A n \in RegistryNames(registry) :
         TargetOf(removeGetProjectConfig(dotConfig, dirs), n)
           = TargetOf(getProjectConfig(dotConfig, legacyConfig, tsMarker, dirs), n)

----------------------------------------------------------------------------
(* Properties of the installed set, under SpecDeps                         *)

\* isUtilityInstalled in the current project state
IsInstalled(n) ==
  isUtilityInstalled(registry, dotConfig, legacyConfig, tsMarker, dirs, files, n)

\* C30: after any sequence of add commands with dependencies and remove
\* commands, without I/O errors and with every source resolvable, every
\* installed utility has all of its direct dependencies installed.
C30_InstalledHaveTheirDependencies ==
  \A n \in RegistryNames(registry) :
    IsInstalled(n) => \A d \in DepsOf(registry, n) : IsInstalled(d)

====
